---- MODULE Spec2Model ----
(***************************************************************************)
(* Notebook Buddy backend (FastAPI).  A state-machine model of its         *)
(* subsystems, each with its own specification:                            *)
(*                                                                         *)
(*   SpecBlocks  the text-block endpoints over the NotebookBuddy_TextBlocks*)
(*               table (server/api/endpoints/text_blocks.py,               *)
(*               server/api/services/dynamodb_service.py)                  *)
(*   SpecAuth    the credential endpoints over the NotebookBuddy_NextAuth  *)
(*               table (server/api/endpoints/auth.py,                      *)
(*               server/api/services/auth_service.py)                      *)
(*   SpecVec     the vector record pipeline over a Pinecone index          *)
(*               (server/api/endpoints/pinecone.py,                        *)
(*               server/api/services/pinecone_service.py)                  *)
(*   SpecProjects the project endpoints over the NotebookBuddy_Project     *)
(*               table (server/api/endpoints/projects.py,                  *)
(*               server/api/services/dynamodb_service.py)                  *)
(*   SpecWorkers two server processes answering PUT /text-blocks requests  *)
(*               over the one NotebookBuddy_TextBlocks table               *)
(*   SpecRead    GET /text-blocks after single-block saves, with the order *)
(*               of insertion kept as history                              *)
(*   SpecMain    the routes of server/main.py, GET / and GET /test, next   *)
(*               to the credential endpoints                               *)
(*   SpecNotecrafts the notecrafts endpoints of pinecone.py over the index *)
(*               "notecrafts-test"                                         *)
(*   SpecManagers the import of the endpoint modules and the DynamoDBManager*)
(*               classes (dynamodb_service.py, aws_config.py)              *)
(*   SpecRegister POST /auth/register on two threads of the server's pool  *)
(*   SpecUpload  POST /upload requests that overlap at their awaits        *)
(*               (server/api/endpoints/upload.py)                          *)
(*                                                                         *)
(* The subsystems share no state, so each is explored on its own; Spec is  *)
(* their interleaving.  A handler that contains no real suspension point   *)
(* (an async def whose body makes only blocking calls) is one action.  The *)
(* client of each subsystem is sequential: it reads the response of a      *)
(* request (the Deliver actions) before it sends the next one.             *)
(***************************************************************************)
EXTENDS Integers, Sequences, FiniteSets, TLC

VARIABLES
    textBlocks,   \* the items of table NotebookBuddy_TextBlocks (a set of items)
    lastSaved,    \* history: per (projectId, blockId), the values of the latest
                  \*          successful save as a one-element set, {} after a delete or
                  \*          before any save
    tbReq,        \* the text-block request being answered, or NoReq
    tbResp,       \* its HTTP response, or NoResp
    tbCalls,      \* the store calls that request made, in order
    users,        \* table NotebookBuddy_NextAuth: per email, the item stored under
                  \*          pk = sk = USER#email as a one-element set, or {}
    created,      \* history: per email, the password of the latest successful
                  \*          AuthService.create_user as a one-element set, or {}
    authReq,      \* the credential call or request being answered, or NoReq
    authResp,     \* its result, or NoResp
    authCalls,    \* the store calls it made, in order
    vecIndex,     \* the Pinecone index: per (namespace, id), the vector stored as a
                  \*          one-element set, or {}
    openaiKey,    \* whether OPENAI_API_KEY is set in the process environment
    vecReq,       \* the vector request being answered, or NoReq
    vecResp,      \* its HTTP response, or NoResp
    vecCalls,     \* the outbound calls it made (embedding provider, index), in order
    workers,      \* per server process, the PUT /text-blocks request it is answering
                  \*          and how far its loop has come
    putLog,       \* history: the put_item calls of the server processes that went
                  \*          through, in the order the table executed them
    inserted,     \* history: the keys of the stored text blocks in the order they
                  \*          were first put (kept by the actions of SpecRead)
    projects,     \* table NotebookBuddy_Project: per projectId, the item stored as
                  \*          a one-element set, or {}
    prReq,        \* the project request or call being answered, or NoReq
    prResp,       \* its response, or NoResp
    prCalls,      \* the outbound calls it made (assistant provider, table), in order
    environ,      \* the process environment read by GET /test: AWS_REGION, API_URL
    mainReq,      \* the request to a route of main.py being answered, or NoReq
    mainResp,     \* its HTTP response, or NoResp
    awsSession,   \* whether aws_config offers the name aws_session that
                  \*          dynamodb_service imports from it
    startup,      \* how far the import of the endpoint modules has come
    managers,     \* per DynamoDBManager class: _instance, its dynamodb attribute
                  \*          and _tables
    initCalls,    \* history: per creator, the DynamoDB resources it has created
    handed,       \* history: per DynamoDBManager class and table name, the
                  \*          handles get_table has returned
    regs,         \* per thread of the server's pool, the POST /auth/register
                  \*          request it runs and how far it has come
    constructed,  \* how often DynamoDBManager() and DynamoDBService() have been
                  \*          called after the start
    clock,        \* time.time() in whole seconds
    fs,           \* the uploads directory: per path, the file there as a
                  \*          one-element set, or {}
    uploads,      \* per request slot of the event loop, the POST /upload request
                  \*          it runs and how far it has come
    nextId,       \* history: the number the next upload request gets
    opened,       \* history: which request opened which path for writing
    completed     \* history: the requests answered 200, with their paths

tbVars == <<textBlocks, lastSaved, tbReq, tbResp, tbCalls>>

authVars == <<users, created, authReq, authResp, authCalls>>

vecVars == <<vecIndex, openaiKey, vecReq, vecResp, vecCalls>>

wkVars == <<workers, putLog>>

rdVars == <<inserted>>

prVars == <<projects, prReq, prResp, prCalls>>

mainVars == <<environ, mainReq, mainResp>>

\* The state of the parts that stand apart from the four stores above.
mgrVars == <<awsSession, startup, managers, initCalls, handed, constructed>>

regVars == <<regs>>

upVars == <<clock, fs, uploads, nextId, opened, completed>>

otherVars == <<mainVars, mgrVars, regVars, upVars>>

\* The stores and their requests.
storeVars == <<tbVars, authVars, vecVars, wkVars, rdVars, prVars>>

vars == <<tbVars, authVars, vecVars, wkVars, rdVars, prVars, otherVars>>

\* What the actions of one subsystem leave alone.
NotBlocks == <<authVars, vecVars, wkVars, rdVars, prVars, otherVars>>
NotAuth   == <<tbVars, vecVars, wkVars, rdVars, prVars, otherVars>>
NotVec    == <<tbVars, authVars, wkVars, rdVars, prVars, otherVars>>
NotTable  == <<authVars, vecVars, prVars, otherVars>>
NotProjects == <<tbVars, authVars, vecVars, wkVars, rdVars, otherVars>>

\* No request in progress / no response yet.
NoReq  == [op |-> "none"]
NoResp == [code |-> 0, status |-> "none"]

(***************************************************************************)
(* Sample values and bounds                                                *)
(***************************************************************************)
Projects == {"p1", "p2"}
BlockIds == {"b1", "b2"}

\* The (content, order) pairs the sample blocks carry: two orders for one
\* content, two contents for one order.
Payloads == {[content |-> "one", order |-> 0], [content |-> "one", order |-> 1],
             [content |-> "two", order |-> 1]}

\* Longest batch a PUT /text-blocks/{project_id} request carries.
MaxBatch == 2

RECURSIVE SeqsUpTo(_, _)
SeqsUpTo(S, n) ==
    IF n = 0 THEN {<<>>}
    ELSE LET shorter == SeqsUpTo(S, n - 1)
         IN  shorter \cup {Append(s, x) : s \in {t \in shorter : Len(t) = n - 1}, x \in S}

(***************************************************************************)
(* Table NotebookBuddy_TextBlocks, primary key (projectId, textBlockId)    *)
(***************************************************************************)
Keys == Projects \X BlockIds

KeyOf(item) == <<item.projectId, item.textBlockId>>

ItemsAt(table, k) == {x \in table : KeyOf(x) = k}

\* A put that adds the item without replacing the one stored under its key.
PutItemNoReplace(table, item) == table \cup {item}

\* A put conditioned on the key being absent: the first write is kept.
PutItemIfAbsent(table, item) ==
    IF \E x \in table : KeyOf(x) = KeyOf(item) THEN table ELSE table \cup {item}

\* Table.put_item: the item replaces whatever is stored under its primary key.
PutItem(table, item) == {x \in table : KeyOf(x) # KeyOf(item)} \cup {item}

\* A delete keyed by the project alone.
DeleteItemByProject(table, pid, bid) == {x \in table : x.projectId # pid}

\* Table.delete_item: removes the item under the key, if any; no condition
\* expression is given, so an absent key is not an error.
DeleteItem(table, pid, bid) == {x \in table : KeyOf(x) # <<pid, bid>>}

\* An item that keeps the order out of the record.
TextBlockItemNoOrder(pid, bid, content, order) ==
    [projectId |-> pid, textBlockId |-> bid, content |-> content, order |-> 0]

\* The item save_text_block builds.  Its updatedAt attribute, a wall-clock
\* reading that no operation reads back, is left out.
TextBlockItem(pid, bid, content, order) ==
    [projectId |-> pid, textBlockId |-> bid, content |-> content, order |-> order]

\* The dict save_text_block returns.
SavedBlock(bid, content, order) == [id |-> bid, content |-> content, order |-> order]

(***************************************************************************)
(* PUT /text-blocks/{project_id}                                           *)
(***************************************************************************)
\* A block of the JSON body: the order key may be left out.
JsonBlocks ==
    {[id |-> i, content |-> p.content, order |-> p.order] : i \in BlockIds, p \in Payloads}
        \cup {[id |-> "b1", content |-> "one"], [id |-> "b2", content |-> "two"]}

\* BlocksPayload / TextBlock validation: id, content and order are required
\* fields (order: int has no default), so a block without order is rejected.
ValidPayload(blocks) == \A i \in 1..Len(blocks) : "order" \in DOMAIN blocks[i]

\* hasattr(block, 'order') on a validated TextBlock instance: a declared field
\* is always an attribute of the instance.
HasAttrOrder(block) == TRUE

\* order = block.order if hasattr(block, 'order') else index   (index is 0-based)
OrderOf(block, i) == IF HasAttrOrder(block) THEN block.order ELSE i - 1

\* A loop that goes on to the next block after a put has raised.
RECURSIVE SaveLoopContinue(_, _, _, _, _, _, _)
SaveLoopContinue(table, pid, blocks, i, failAt, saved, calls) ==
    IF i > Len(blocks)
    THEN [table |-> table, saved |-> saved, calls |-> calls,
          failed |-> IF failAt \in 1..Len(blocks) THEN failAt ELSE 0]
    ELSE LET b     == blocks[i]
             order == OrderOf(b, i)
             call  == [op |-> "put", idx |-> i, pid |-> pid, bid |-> b.id,
                       content |-> b.content, order |-> order, ok |-> i # failAt]
         IN  IF i = failAt
             THEN SaveLoopContinue(table, pid, blocks, i + 1, failAt, saved,
                                   Append(calls, call))
             ELSE SaveLoopContinue(
                      PutItem(table, TextBlockItem(pid, b.id, b.content, order)),
                      pid, blocks, i + 1, failAt,
                      Append(saved, SavedBlock(b.id, b.content, order)),
                      Append(calls, call))

\* The for loop of save_text_blocks from block i on: each block is put in turn;
\* the put of block failAt raises (failAt = 0: no put fails), which ends the loop.
\* Gives the table, the saved_blocks list, the log of store calls and the index
\* of the block whose put raised (0: none).
RECURSIVE SaveLoop(_, _, _, _, _, _, _)
SaveLoop(table, pid, blocks, i, failAt, saved, calls) ==
    IF i > Len(blocks)
    THEN [table |-> table, saved |-> saved, calls |-> calls, failed |-> 0]
    ELSE LET b     == blocks[i]
             order == OrderOf(b, i)
             call  == [op |-> "put", idx |-> i, pid |-> pid, bid |-> b.id,
                       content |-> b.content, order |-> order, ok |-> i # failAt]
         IN  IF i = failAt
             THEN [table |-> table, saved |-> saved,
                   calls |-> Append(calls, call), failed |-> i]
             ELSE SaveLoop(PutItem(table, TextBlockItem(pid, b.id, b.content, order)),
                           pid, blocks, i + 1, failAt,
                           Append(saved, SavedBlock(b.id, b.content, order)),
                           Append(calls, call))

\* An insertion that puts an element in front of the elements of equal order.
RECURSIVE InsertBeforeEqual(_, _)
InsertBeforeEqual(sorted, x) ==
    IF sorted = <<>> THEN <<x>>
    ELSE IF Head(sorted).order < x.order
         THEN <<Head(sorted)>> \o InsertBeforeEqual(Tail(sorted), x)
         ELSE <<x>> \o sorted

\* list.sort(key=lambda x: x['order']): a stable sort, here by insertion: each
\* element goes behind the elements whose order is not greater than its own.
RECURSIVE InsertByOrder(_, _)
InsertByOrder(sorted, x) ==
    IF sorted = <<>> THEN <<x>>
    ELSE IF Head(sorted).order <= x.order
         THEN <<Head(sorted)>> \o InsertByOrder(Tail(sorted), x)
         ELSE <<x>> \o sorted

RECURSIVE SortByOrder(_)
SortByOrder(s) ==
    IF s = <<>> THEN <<>>
    ELSE InsertByOrder(SortByOrder(SubSeq(s, 1, Len(s) - 1)), s[Len(s)])

\* History: the values of the latest successful save per key.
RECURSIVE ApplyCalls(_, _)
ApplyCalls(hist, calls) ==
    IF calls = <<>> THEN hist
    ELSE LET c == Head(calls)
             k == <<c.pid, c.bid>>
             h == IF ~c.ok THEN hist
                  ELSE IF c.op = "put"
                       THEN [hist EXCEPT ![k] = {[content |-> c.content, order |-> c.order]}]
                       ELSE [hist EXCEPT ![k] = {}]
         IN  ApplyCalls(h, Tail(calls))

\* str(e) of the exception a failing put_item raises: botocore's text names the
\* error code and the operation, never the item.
PutItemError == "An error occurred (InternalServerError) when calling the PutItem operation"

\* A text is the sequence of the pieces an f-string joins.
\* DynamoDBService.save_text_block, except clause:
\*     raise Exception(f"Error saving text block: {str(e)}")
\* project_id and block_id are at hand there and are left out of the text.
SaveTextBlockError(project_id, block_id, cause) == <<"Error saving text block: ", cause>>

\* save_text_blocks, except clause: detail=str(e), e being the exception of the
\* save_text_block call that raised (the last call of the log).
SaveErrorDetail(calls) ==
    LET c == calls[Len(calls)]
    IN  SaveTextBlockError(c.pid, c.bid, PutItemError)

\* The handler: FastAPI validates the body first (422, the handler never runs);
\* the handler saves the blocks in turn and answers with the sorted list, or
\* turns the first exception into a 500.
save_text_blocks(pid, blocks, failAt) ==
    /\ tbReq' = [op |-> "put_blocks", pid |-> pid, blocks |-> blocks]
    /\ IF ~ValidPayload(blocks)
       THEN /\ tbResp' = [code |-> 422, status |-> "error", blocks |-> <<>>]
            /\ tbCalls' = <<>>
            /\ UNCHANGED <<textBlocks, lastSaved>>
       ELSE LET r == SaveLoop(textBlocks, pid, blocks, 1, failAt, <<>>, <<>>)
            IN  /\ textBlocks' = r.table
                /\ tbCalls' = r.calls
                /\ lastSaved' = ApplyCalls(lastSaved, r.calls)
                /\ tbResp' = IF r.failed = 0
                             THEN [code |-> 200, status |-> "success",
                                   blocks |-> SortByOrder(r.saved)]
                             ELSE [code |-> 500, status |-> "error", blocks |-> <<>>,
                                   detail |-> SaveErrorDetail(r.calls)]

(***************************************************************************)
(* GET /text-blocks/{project_id}                                           *)
(***************************************************************************)
\* BlockIds in the order of the table's sort key textBlockId (strings compare
\* by their bytes).
BlockIdOrder == <<"b1", "b2">>

\* A query that returns the items of every project.
QueryAllProjects(table, pid) ==
    LET keys == SelectSeq([n \in 1..(Len(BlockIdOrder) * 2) |->
                              <<IF n <= Len(BlockIdOrder) THEN "p1" ELSE "p2",
                                BlockIdOrder[((n - 1) % Len(BlockIdOrder)) + 1]>>],
                          LAMBDA k : ItemsAt(table, k) # {})
    IN  [n \in 1..Len(keys) |-> CHOOSE x \in ItemsAt(table, keys[n]) : TRUE]

\* text_blocks_table.query(KeyConditionExpression='projectId = :pid'): the items
\* of the partition, which a query returns in ascending order of the sort key.
QueryByProject(table, pid) ==
    LET present == SelectSeq(BlockIdOrder, LAMBDA b : ItemsAt(table, <<pid, b>>) # {})
    IN  [n \in 1..Len(present) |-> CHOOSE x \in ItemsAt(table, <<pid, present[n]>>) : TRUE]

\* The transformed block: id, content and order of the item.
TransformedBlock(item) ==
    [id |-> item.textBlockId, content |-> item.content, order |-> item.order]

\* DynamoDBService.get_text_blocks, then the endpoint's envelope: the items of
\* the project, transformed, under a stable sort by order; a failing query is
\* answered 500.
get_text_blocks(pid, ok) ==
    LET items == QueryByProject(textBlocks, pid)
    IN  /\ tbReq' = [op |-> "get_blocks", pid |-> pid]
        /\ tbCalls' = <<[op |-> "query", idx |-> 1, pid |-> pid, bid |-> "",
                         content |-> "", order |-> 0, ok |-> ok]>>
        /\ tbResp' = IF ok
                     THEN [code |-> 200, status |-> "success",
                           blocks |-> SortByOrder([n \in 1..Len(items) |->
                                                      TransformedBlock(items[n])])]
                     ELSE [code |-> 500, status |-> "error", blocks |-> <<>>]
        /\ UNCHANGED <<textBlocks, lastSaved>>

(***************************************************************************)
(* DELETE /text-blocks/{project_id}/{block_id}                             *)
(***************************************************************************)
delete_text_block(pid, bid, ok) ==
    /\ tbReq' = [op |-> "delete_block", pid |-> pid, bid |-> bid]
    /\ tbCalls' = <<[op |-> "delete", idx |-> 1, pid |-> pid, bid |-> bid,
                     content |-> "", order |-> 0, ok |-> ok]>>
    /\ lastSaved' = ApplyCalls(lastSaved, tbCalls')
    /\ IF ok
       THEN /\ textBlocks' = DeleteItem(textBlocks, pid, bid)
            /\ tbResp' = [code |-> 200, status |-> "success", blocks |-> <<>>]
       ELSE /\ textBlocks' = textBlocks
            /\ tbResp' = [code |-> 500, status |-> "error", blocks |-> <<>>]

\* The body of the response to a raised HTTPException(status_code, detail), and
\* to a body that fails validation: the application registers no exception
\* handler of its own, so the framework's default renders {"detail": ...}.
HTTPExceptionBody(detail) == [detail |-> detail]

\* The JSON body of a text-block response: the handlers' success envelope, or
\* the rendering of the HTTPException they raise with detail=str(e).
ResponseBody(resp) ==
    IF resp.code = 200
    THEN [status |-> "success", data |-> [blocks |-> resp.blocks]]
    ELSE IF "detail" \in DOMAIN resp THEN HTTPExceptionBody(resp.detail)
    ELSE HTTPExceptionBody("str(e)")

\* The client reads the response; the next request can be sent.
DeliverBlocks ==
    /\ tbReq # NoReq
    /\ tbReq' = NoReq
    /\ tbResp' = NoResp
    /\ tbCalls' = <<>>
    /\ UNCHANGED <<textBlocks, lastSaved>>
    /\ UNCHANGED NotBlocks

InitBlocks ==
    /\ textBlocks = {}
    /\ lastSaved = [k \in Keys |-> {}]
    /\ tbReq = NoReq
    /\ tbResp = NoResp
    /\ tbCalls = <<>>

\* The bodies a client sends.
Batches == SeqsUpTo(JsonBlocks, MaxBatch)

\* A client sends a request once the previous one is answered.  failAt, ok: the
\* outcome of the store calls (a put or delete can raise).
PutBlocks ==
    /\ tbReq = NoReq
    /\ \E pid \in Projects, blocks \in Batches :
           \E failAt \in 0..Len(blocks) : save_text_blocks(pid, blocks, failAt)
    /\ UNCHANGED NotBlocks

DeleteBlock ==
    /\ tbReq = NoReq
    /\ \E pid \in Projects, bid \in BlockIds, ok \in BOOLEAN :
           delete_text_block(pid, bid, ok)
    /\ UNCHANGED NotBlocks

GetBlocks ==
    /\ tbReq = NoReq
    /\ \E pid \in Projects, ok \in BOOLEAN : get_text_blocks(pid, ok)
    /\ UNCHANGED NotBlocks

NextBlocks == PutBlocks \/ DeleteBlock \/ GetBlocks \/ DeliverBlocks

(***************************************************************************)
(* Reads after single-block saves, with the order of insertion as history  *)
(***************************************************************************)
\* The keys in the order of their first put; a delete takes the key out.
RECURSIVE InsertedAfter(_, _)
InsertedAfter(ins, calls) ==
    IF calls = <<>> THEN ins
    ELSE LET c == Head(calls)
             k == <<c.pid, c.bid>>
             has == \E n \in 1..Len(ins) : ins[n] = k
             next == IF ~c.ok THEN ins
                     ELSE IF c.op = "put" THEN (IF has THEN ins ELSE Append(ins, k))
                     ELSE IF c.op = "delete" THEN SelectSeq(ins, LAMBDA x : x # k)
                     ELSE ins
         IN  InsertedAfter(next, Tail(calls))

\* Bodies of one block.
SingleBatches == {<<b>> : b \in {x \in JsonBlocks : "order" \in DOMAIN x}}

NotRead == <<authVars, vecVars, wkVars, prVars, otherVars>>

ReadPut ==
    /\ tbReq = NoReq
    /\ \E pid \in Projects, blocks \in SingleBatches :
           \E failAt \in 0..Len(blocks) : save_text_blocks(pid, blocks, failAt)
    /\ inserted' = InsertedAfter(inserted, tbCalls')
    /\ UNCHANGED NotRead

ReadDelete ==
    /\ tbReq = NoReq
    /\ \E pid \in Projects, bid \in BlockIds, ok \in BOOLEAN :
           delete_text_block(pid, bid, ok)
    /\ inserted' = InsertedAfter(inserted, tbCalls')
    /\ UNCHANGED NotRead

NextRead == ReadPut \/ ReadDelete \/ GetBlocks \/ DeliverBlocks


(***************************************************************************)
(* Credential store: AuthService over table NotebookBuddy_NextAuth         *)
(***************************************************************************)
Emails    == {"a@x", "o@x"}
Salts     == {"s1", "s2"}
Providers == {"google"}

\* Python's None in a string-valued optional field.
PyNone == "None"

\* A password is its first 72 bytes (head) and whatever follows them (tail):
\* bcrypt, the one scheme of pwd_context, reads no more than 72 bytes of it.
Passwords == [head : {"pw1", "pw2"}, tail : {"", "x"}]

\* Python's None where a password is expected (UserCreate.password is optional).
NoPassword == [none |-> TRUE]

\* The table as the service's own requests can find it: empty, or holding an
\* identity written by the NextAuth front end that shares the table -- an item
\* with provider and name, the attributes the create-user endpoint reads, and
\* without hashed_password.
OAuthUser(email) ==
    [pk |-> <<"USER#", email>>, email |-> email, name |-> "O", provider |-> "google"]

\* A verification that compares nothing.
VerifyAnything(plain, hashed) == TRUE

\* pwd_context.hash: bcrypt of the first 72 bytes under a fresh random salt; the
\* hash string carries the salt.
GetPasswordHash(password, salt) == [salt |-> salt, digest |-> <<salt, password.head>>]

\* pwd_context.verify: bcrypt of the first 72 bytes of the candidate under the
\* salt of the stored hash, compared with the stored digest.
VerifyPassword(plain, hashed) == hashed.digest = <<hashed.salt, plain.head>>

\* get_user_by_email: the item under USER#email or None; a failing get_item is
\* printed and answered None as well.
get_user_by_email(table, email, ok) == IF ok THEN table[email] ELSE {}

\* The item AuthService.create_user builds.
NewUserItem(email, hashed) ==
    [pk |-> <<"USER#", email>>, email |-> email, hashed_password |-> hashed,
     is_active |-> TRUE, is_demo |-> FALSE]

\* AuthService.create_user(email, password): hashes, puts, returns the public
\* fields; hashing None raises TypeError before anything is put, and a failing
\* put_item is re-raised.  Gives what was raised ("" for a normal return), the
\* returned dict (as a set) and the store calls made.
AuthService_create_user(email, password, salt, putOk) ==
    IF password = NoPassword
    THEN [raised |-> "TypeError", user |-> {}, calls |-> <<>>, item |-> {}]
    ELSE LET item == NewUserItem(email, GetPasswordHash(password, salt))
             call == [op |-> "put", email |-> email, ok |-> putOk]
         IN  IF putOk
             THEN [raised |-> "", calls |-> <<call>>, item |-> {item},
                   user |-> {[id |-> item.pk, email |-> item.email,
                              is_active |-> item.is_active, is_demo |-> item.is_demo]}]
             ELSE [raised |-> "ClientError", user |-> {}, calls |-> <<call>>, item |-> {}]

\* An authentication that returns every stored user without a look at the
\* password.
authenticate_without_verify(table, email, password, lookupOk) ==
    LET found == get_user_by_email(table, email, lookupOk)
    IN  IF found = {} THEN [raised |-> "", user |-> {}]
        ELSE [raised |-> "",
              user |-> {[id |-> u.pk, email |-> u.email, is_active |-> TRUE] : u \in found}]

\* AuthService.authenticate_user
authenticate_user(table, email, password, lookupOk) ==
    LET found == get_user_by_email(table, email, lookupOk)
    IN  IF found = {}
        THEN [raised |-> "", user |-> {}]
        ELSE LET user == CHOOSE u \in found : TRUE
             IN  IF "hashed_password" \notin DOMAIN user
                 THEN [raised |-> "KeyError", user |-> {}]    \* user['hashed_password']
                 ELSE IF ~VerifyPassword(password, user.hashed_password)
                      THEN [raised |-> "", user |-> {}]
                      ELSE [raised |-> "", user |-> {[id |-> user.pk, email |-> user.email,
                                                      is_active |-> user.is_active]}]

GetCall(email, ok) == [op |-> "get", email |-> email, ok |-> ok]

\* A direct call of AuthService.create_user(email, password).
CallCreateUser(email, password, salt, putOk) ==
    LET r == AuthService_create_user(email, password, salt, putOk)
    IN  /\ authReq' = [op |-> "create_user", email |-> email, password |-> password]
        /\ authResp' = [code |-> 0, status |-> "return", raised |-> r.raised, user |-> r.user]
        /\ authCalls' = r.calls
        /\ users' = IF r.item = {} THEN users ELSE [users EXCEPT ![email] = r.item]
        /\ created' = IF r.item = {} THEN created ELSE [created EXCEPT ![email] = {password}]

\* A direct call of AuthService.authenticate_user(email, password).
CallAuthenticate(email, password, lookupOk) ==
    LET r == authenticate_user(users, email, password, lookupOk)
    IN  /\ authReq' = [op |-> "authenticate_user", email |-> email, password |-> password]
        /\ authResp' = [code |-> 0, status |-> "return", raised |-> r.raised, user |-> r.user]
        /\ authCalls' = <<GetCall(email, lookupOk)>>
        /\ UNCHANGED <<users, created>>

\* AuthService.get_user_demo_flag: the is_demo attribute of the stored user,
\* False when there is no user, no attribute, or the lookup failed.
get_user_demo_flag(table, email, ok) ==
    LET found == get_user_by_email(table, email, ok)
    IN  IF found = {} THEN FALSE
        ELSE LET user == CHOOSE u \in found : TRUE
             IN  IF "is_demo" \in DOMAIN user THEN user.is_demo ELSE FALSE

\* A direct call of AuthService.get_user_by_email(email).
CallGetUserByEmail(email, ok) ==
    /\ authReq' = [op |-> "get_user_by_email", email |-> email]
    /\ authResp' = [code |-> 0, status |-> "return", raised |-> "",
                    user |-> get_user_by_email(users, email, ok)]
    /\ authCalls' = <<GetCall(email, ok)>>
    /\ UNCHANGED <<users, created>>

\* A direct call of AuthService.get_user_demo_flag(email).
CallGetUserDemoFlag(email, ok) ==
    /\ authReq' = [op |-> "get_user_demo_flag", email |-> email]
    /\ authResp' = [code |-> 0, status |-> "return", raised |-> "", user |-> {},
                    flag |-> get_user_demo_flag(users, email, ok)]
    /\ authCalls' = <<GetCall(email, ok)>>
    /\ UNCHANGED <<users, created>>

\* POST /auth/login.  A None from authenticate_user raises HTTPException(401);
\* that and every other exception (the KeyError of a user without
\* hashed_password) are re-raised as 401 by the two except clauses.  Otherwise
\* the demo flag is looked up and the success envelope returned.
login(email, password, lookupOk, demoOk) ==
    LET r == authenticate_user(users, email, password, lookupOk)
    IN  /\ authReq' = [op |-> "POST /auth/login", email |-> email, password |-> password]
        /\ UNCHANGED <<users, created>>
        /\ IF r.raised # "" \/ r.user = {}
           THEN /\ authCalls' = <<GetCall(email, lookupOk)>>
                /\ authResp' = [code |-> 401, status |-> "error",
                                raised |-> IF r.raised # "" THEN r.raised
                                           ELSE "HTTPException(401)",
                                user |-> {}]
           ELSE /\ authCalls' = <<GetCall(email, lookupOk), GetCall(email, demoOk)>>
                /\ authResp' = [code |-> 200, status |-> "success", raised |-> "",
                                user |-> {[email |-> u.email,
                                           is_demo |-> get_user_demo_flag(users, email, demoOk),
                                           provider |-> "credentials"] : u \in r.user}]

\* The keyword arguments AuthService.create_user accepts besides self.
CreateUserParams == {"email", "password"}

\* POST /auth/create-user.  An existing user with the same provider is answered
\* with success; with another provider HTTPException(400) is raised inside the
\* try and re-raised by "except Exception" as a 500.  For a new user the handler
\* calls auth_service.create_user with the keywords email, password, name,
\* provider and provider_id: the method takes email and password only, so the
\* call raises TypeError, which becomes a 500.
create_user(email, password, provider, lookupOk) ==
    LET existing == get_user_by_email(users, email, lookupOk)
        kwargs   == {"email", "password", "name", "provider", "provider_id"}
    IN  /\ authReq' = [op |-> "POST /auth/create-user", email |-> email,
                       password |-> password, provider |-> provider]
        /\ authCalls' = <<GetCall(email, lookupOk)>>
        /\ UNCHANGED <<users, created>>
        /\ IF existing # {}
           THEN LET u == CHOOSE x \in existing : TRUE
                    stored == IF "provider" \in DOMAIN u THEN u.provider ELSE PyNone
                IN  IF stored = provider
                    THEN authResp' = [code |-> 200, status |-> "success", raised |-> "",
                                      user |-> {[id |-> u.pk[2], email |-> u.email]}]
                    ELSE authResp' = [code |-> 500, status |-> "error",
                                      raised |-> "HTTPException(400)", user |-> {}]
           ELSE IF kwargs \subseteq CreateUserParams
                THEN FALSE    \* the service call would go through; it cannot
                ELSE authResp' = [code |-> 500, status |-> "error",
                                  raised |-> "TypeError", user |-> {}]

\* POST /auth/register
register(email, password, salt, lookupOk, putOk) ==
    LET existing == get_user_by_email(users, email, lookupOk)
        r == AuthService_create_user(email, password, salt, putOk)
    IN  /\ authReq' = [op |-> "POST /auth/register", email |-> email, password |-> password]
        /\ IF existing # {}
           THEN /\ authResp' = [code |-> 500, status |-> "error",
                                raised |-> "HTTPException(400)", user |-> {}]
                /\ authCalls' = <<GetCall(email, lookupOk)>>
                /\ UNCHANGED <<users, created>>
           ELSE /\ authCalls' = <<GetCall(email, lookupOk)>> \o r.calls
                /\ users' = IF r.item = {} THEN users ELSE [users EXCEPT ![email] = r.item]
                /\ created' = IF r.item = {} THEN created
                              ELSE [created EXCEPT ![email] = {password}]
                /\ authResp' = IF r.raised = ""
                               THEN [code |-> 200, status |-> "success", raised |-> "",
                                     user |-> r.user]
                               ELSE [code |-> 500, status |-> "error", raised |-> r.raised,
                                     user |-> {}]

DeliverAuth ==
    /\ authReq # NoReq
    /\ authReq' = NoReq
    /\ authResp' = NoResp
    /\ authCalls' = <<>>
    /\ UNCHANGED <<users, created>>
    /\ UNCHANGED NotAuth

InitAuth ==
    /\ users \in {[e \in Emails |-> {}],
                  [e \in Emails |-> IF e = "o@x" THEN {OAuthUser(e)} ELSE {}]}
    /\ created = [e \in Emails |-> {}]
    /\ authReq = NoReq
    /\ authResp = NoResp
    /\ authCalls = <<>>

ServiceCreateUser ==
    /\ authReq = NoReq
    /\ \E email \in Emails, password \in Passwords \cup {NoPassword},
          salt \in Salts, putOk \in BOOLEAN :
           CallCreateUser(email, password, salt, putOk)
    /\ UNCHANGED NotAuth

ServiceAuthenticate ==
    /\ authReq = NoReq
    /\ \E email \in Emails, password \in Passwords, lookupOk \in BOOLEAN :
           CallAuthenticate(email, password, lookupOk)
    /\ UNCHANGED NotAuth

PostCreateUser ==
    /\ authReq = NoReq
    /\ \E email \in Emails, password \in Passwords \cup {NoPassword},
          provider \in Providers \cup {PyNone}, lookupOk \in BOOLEAN :
           create_user(email, password, provider, lookupOk)
    /\ UNCHANGED NotAuth

PostRegister ==
    /\ authReq = NoReq
    /\ \E email \in Emails, password \in Passwords \cup {NoPassword},
          salt \in Salts, lookupOk \in BOOLEAN, putOk \in BOOLEAN :
           register(email, password, salt, lookupOk, putOk)
    /\ UNCHANGED NotAuth

ServiceGetUserByEmail ==
    /\ authReq = NoReq
    /\ \E email \in Emails, ok \in BOOLEAN : CallGetUserByEmail(email, ok)
    /\ UNCHANGED NotAuth

ServiceGetUserDemoFlag ==
    /\ authReq = NoReq
    /\ \E email \in Emails, ok \in BOOLEAN : CallGetUserDemoFlag(email, ok)
    /\ UNCHANGED NotAuth

PostLogin ==
    /\ authReq = NoReq
    /\ \E email \in Emails, password \in Passwords, lookupOk \in BOOLEAN,
          demoOk \in BOOLEAN :
           login(email, password, lookupOk, demoOk)
    /\ UNCHANGED NotAuth

NextAuth ==
    \/ ServiceCreateUser
    \/ ServiceAuthenticate
    \/ ServiceGetUserByEmail
    \/ ServiceGetUserDemoFlag
    \/ PostLogin
    \/ PostCreateUser
    \/ PostRegister
    \/ DeliverAuth


(***************************************************************************)
(* Vector record pipeline: PineconeService and its endpoints               *)
(***************************************************************************)
Namespaces == {"", "user-42"}
RecordIds  == {"r1", "r2"}
Tenants    == {"user-42", "user-7"}
Texts      == {"hello"}

\* Most records in one upsert request.
MaxRecords == 2

\* Components of a text-embedding-3-large vector.
EmbeddingDim == 3072

\* Components of the placeholder vector: range(3072).
PlaceholderLen == 3072

\* A record of the request body is a JSON object: any key may be missing.
ValidRecords ==
    {[_id |-> i, content |-> c, metadata |-> [userId |-> u]] :
        i \in RecordIds, c \in Texts, u \in Tenants}
InvalidRecords ==
    {[content |-> "hello"], [_id |-> "", content |-> "hello"],
     [_id |-> "r1"], [_id |-> "r1", content |-> ""]}
JsonRecords == ValidRecords \cup InvalidRecords

\* dict.get(key): the value, or None.
DictGet(d, key) == IF key \in DOMAIN d THEN d[key] ELSE PyNone

\* "not x" for a string or None.
Falsy(x) == x = PyNone \/ x = ""

\* A vector is kept by its number of components and by whether it is the random
\* placeholder; the component values themselves are left out.
\* [random.uniform(-1, 1) for _ in range(3072)]
Placeholder == [dim |-> PlaceholderLen, placeholder |-> TRUE]

\* An embedding client whose except clause hands the failure on.
GetEmbeddingNoFallback(text, hasKey, outcome) ==
    IF ~hasKey THEN [raised |-> "", vec |-> Placeholder]
    ELSE IF outcome = "fail" THEN [raised |-> "APIError", vec |-> [dim |-> 0, placeholder |-> FALSE]]
    ELSE [raised |-> "", vec |-> [dim |-> EmbeddingDim, placeholder |-> FALSE]]

\* PineconeService._get_embedding.  Without OPENAI_API_KEY the placeholder is
\* returned (by the explicit check, or by the except clause when the client
\* constructor already raises for the missing key); a failing provider call is
\* caught by the except clause, which returns the placeholder too; otherwise the
\* provider's vector is returned.
GetEmbedding(text, hasKey, outcome) ==
    IF ~hasKey THEN [raised |-> "", vec |-> Placeholder]
    ELSE IF outcome = "fail" THEN [raised |-> "", vec |-> Placeholder]
    ELSE [raised |-> "", vec |-> [dim |-> EmbeddingDim, placeholder |-> FALSE]]

EmbedCall(text, hasKey, outcome, r) ==
    [op |-> "embed", text |-> text, hasKey |-> hasKey, outcome |-> outcome,
     raised |-> r.raised, dim |-> r.vec.dim, placeholder |-> r.vec.placeholder]

\* vector["metadata"]: content, then every entry of the record's metadata.
VectorMetadata(record) ==
    LET extra == IF "metadata" \in DOMAIN record THEN record.metadata ELSE <<>>
    IN  [k \in {"content"} \cup DOMAIN extra |->
            IF k \in DOMAIN extra THEN extra[k] ELSE record.content]

\* A loop that leaves a record without _id or content out and goes on.
RECURSIVE ProcessRecordsSkipInvalid(_, _, _, _, _, _)
ProcessRecordsSkipInvalid(records, i, hasKey, outcomes, vectors, calls) ==
    IF i > Len(records) THEN [error |-> "", vectors |-> vectors, calls |-> calls]
    ELSE LET record    == records[i]
             record_id == DictGet(record, "_id")
             content   == DictGet(record, "content")
             e         == GetEmbedding(content, hasKey, outcomes[i])
         IN  IF Falsy(record_id) \/ Falsy(content)
             THEN ProcessRecordsSkipInvalid(records, i + 1, hasKey, outcomes, vectors, calls)
             ELSE ProcessRecordsSkipInvalid(records, i + 1, hasKey, outcomes,
                      Append(vectors, [id |-> record_id, dim |-> e.vec.dim,
                                       metadata |-> VectorMetadata(record)]),
                      Append(calls, EmbedCall(content, hasKey, outcomes[i], e)))

\* The "Process records" loop of upsert_records from record i on: a record
\* without _id or content ends the call with an error; otherwise its content is
\* embedded and its vector appended to the local list.
RECURSIVE ProcessRecords(_, _, _, _, _, _)
ProcessRecords(records, i, hasKey, outcomes, vectors, calls) ==
    IF i > Len(records) THEN [error |-> "", vectors |-> vectors, calls |-> calls]
    ELSE LET record    == records[i]
             record_id == DictGet(record, "_id")
             content   == DictGet(record, "content")
             e         == GetEmbedding(content, hasKey, outcomes[i])
             calls2    == Append(calls, EmbedCall(content, hasKey, outcomes[i], e))
         IN  IF Falsy(record_id) \/ Falsy(content)
             THEN [error |-> "Each record must have _id and content fields",
                   vectors |-> vectors, calls |-> calls]
             ELSE IF e.raised # ""
                  THEN [error |-> e.raised, vectors |-> vectors, calls |-> calls2]
                  ELSE IF e.vec.dim = 0    \* "if not embedding"
                       THEN [error |-> "Failed to get embedding for record",
                             vectors |-> vectors, calls |-> calls2]
                       ELSE ProcessRecords(records, i + 1, hasKey, outcomes,
                                Append(vectors, [id |-> record_id, dim |-> e.vec.dim,
                                                 metadata |-> VectorMetadata(record)]),
                                calls2)

\* index.upsert(vectors, namespace): each vector replaces the one stored under
\* its id in the namespace.
RECURSIVE IndexUpsert(_, _, _)
IndexUpsert(index, vectors, namespace) ==
    IF vectors = <<>> THEN index
    ELSE IndexUpsert([index EXCEPT ![<<namespace, Head(vectors).id>>] = {Head(vectors)}],
                     Tail(vectors), namespace)

\* An upsert_records that sends each vector to the index as soon as it is built.
RECURSIVE UpsertEach(_, _, _, _, _, _, _)
UpsertEach(index, records, i, namespace, hasKey, outcomes, calls) ==
    IF i > Len(records)
    THEN [status |-> "success", message |-> "Upserted records", index |-> index,
          calls |-> calls, count |-> Len(records)]
    ELSE LET p == ProcessRecords(<<records[i]>>, 1, hasKey, <<outcomes[i]>>, <<>>, <<>>)
             call == [op |-> "upsert", namespace |-> namespace, n |-> 1, ok |-> TRUE]
         IN  IF p.error # ""
             THEN [status |-> "error", message |-> p.error, index |-> index,
                   calls |-> calls \o p.calls, count |-> 0]
             ELSE UpsertEach(IndexUpsert(index, p.vectors, namespace), records, i + 1,
                             namespace, hasKey, outcomes, (calls \o p.calls) \o <<call>>)

PineconeService_upsert_each(index, records, namespace, hasKey, outcomes, indexFound, upsertOk) ==
    IF ~indexFound \/ ~upsertOk
    THEN [status |-> "error", message |-> "Index not found", index |-> index,
          calls |-> <<>>, count |-> 0]
    ELSE UpsertEach(index, records, 1, namespace, hasKey, outcomes, <<>>)

\* PineconeService.upsert_records.  indexFound: client.Index(name) gave a handle;
\* upsertOk: the index.upsert call went through.  Gives the returned dict's
\* status and message, the index afterwards and the outbound calls.
PineconeService_upsert_records(index, records, namespace, hasKey, outcomes, indexFound, upsertOk) ==
    IF ~indexFound
    THEN [status |-> "error", message |-> "Index not found", index |-> index,
          calls |-> <<>>, count |-> 0]
    ELSE LET p == ProcessRecords(records, 1, hasKey, outcomes, <<>>, <<>>)
             call == [op |-> "upsert", namespace |-> namespace,
                      n |-> Len(p.vectors), ok |-> upsertOk]
         IN  IF p.error # ""
             THEN [status |-> "error", message |-> p.error, index |-> index,
                   calls |-> p.calls, count |-> 0]
             ELSE IF ~upsertOk
                  THEN [status |-> "error", message |-> "upsert failed", index |-> index,
                        calls |-> Append(p.calls, call), count |-> 0]
                  ELSE [status |-> "success", message |-> "Upserted records",
                        index |-> IndexUpsert(index, p.vectors, namespace),
                        calls |-> Append(p.calls, call), count |-> Len(p.vectors)]

\* POST /indexes/{index_name}/records.  An error result raises HTTPException(400)
\* inside the try; "except Exception" re-raises it as a 500.
upsert_records(records, namespace, outcomes, indexFound, upsertOk) ==
    LET r == PineconeService_upsert_records(vecIndex, records, namespace, openaiKey,
                                            outcomes, indexFound, upsertOk)
    IN  /\ vecReq' = [op |-> "POST records", records |-> records, namespace |-> namespace]
        /\ vecIndex' = r.index
        /\ vecCalls' = r.calls
        /\ vecResp' = IF r.status = "error"
                      THEN [code |-> 500, status |-> "error", result |-> r.status,
                            matches |-> <<>>]
                      ELSE [code |-> 200, status |-> "success", result |-> r.status,
                            matches |-> <<>>]
        /\ UNCHANGED openaiKey

\* index.query(vector, top_k, namespace, include_metadata=True): at most top_k
\* vectors of the namespace, in the order of their scores.
StoredIn(index, namespace) ==
    UNION {index[<<namespace, i>>] : i \in RecordIds}

QueryResults(index, namespace, top_k) ==
    {m \in SeqsUpTo(StoredIn(index, namespace), Cardinality(RecordIds)) :
        /\ Len(m) <= top_k
        /\ \A i \in 1..Len(m) : \A j \in 1..Len(m) : i # j => m[i] # m[j]}

\* The match the service hands on: id, score and metadata (the score is left out).
SerializableMatch(v) == [id |-> v.id, metadata |-> v.metadata]

\* The loop over query_response["matches"].
SerializableMatches(found) == [i \in 1..Len(found) |-> SerializableMatch(found[i])]

\* PineconeService.search_records
PineconeService_search_records(text_query, namespace, found, hasKey, outcome, indexFound, queryOk) ==
    LET e == GetEmbedding(text_query, hasKey, outcome)
        calls1 == <<EmbedCall(text_query, hasKey, outcome, e)>>
        qcall  == [op |-> "query", namespace |-> namespace, ok |-> queryOk, found |-> found]
    IN  IF e.raised # "" \/ e.vec.dim = 0
        THEN [status |-> "error", matches |-> <<>>, calls |-> calls1]
        ELSE IF ~indexFound
             THEN [status |-> "error", matches |-> <<>>, calls |-> calls1]
             ELSE IF ~queryOk
                  THEN [status |-> "error", matches |-> <<>>, calls |-> Append(calls1, qcall)]
                  ELSE [status |-> "success", matches |-> SerializableMatches(found),
                        calls |-> Append(calls1, qcall)]

\* match.get("metadata", {}).get("userId")
MatchUserId(match) == DictGet(match.metadata, "userId")

\* A handler that returns the matches as the service gave them.
FilterMatchesNone(matches, namespace) == matches

\* "Filter results by user ID if available":
\* if request.namespace and matches: keep the matches whose userId is the namespace.
FilterMatches(matches, namespace) ==
    IF ~Falsy(namespace) /\ matches # <<>>
    THEN SelectSeq(matches, LAMBDA m : MatchUserId(m) = namespace)
    ELSE matches

\* POST /indexes/{index_name}/search
search_records(text_query, namespace, found, outcome, indexFound, queryOk) ==
    LET r == PineconeService_search_records(text_query, namespace, found, openaiKey,
                                            outcome, indexFound, queryOk)
    IN  /\ vecReq' = [op |-> "POST search", text_query |-> text_query,
                      namespace |-> namespace]
        /\ vecCalls' = r.calls
        /\ vecResp' = IF r.status = "error"
                      THEN [code |-> 500, status |-> "error", result |-> r.status,
                            matches |-> <<>>]
                      ELSE [code |-> 200, status |-> "success", result |-> r.status,
                            matches |-> FilterMatches(r.matches, namespace)]
        /\ UNCHANGED <<vecIndex, openaiKey>>

DeliverVec ==
    /\ vecReq # NoReq
    /\ vecReq' = NoReq
    /\ vecResp' = NoResp
    /\ vecCalls' = <<>>
    /\ UNCHANGED <<vecIndex, openaiKey>>
    /\ UNCHANGED NotVec

InitVec ==
    /\ vecIndex = [k \in Namespaces \X RecordIds |-> {}]
    /\ openaiKey \in BOOLEAN
    /\ vecReq = NoReq
    /\ vecResp = NoResp
    /\ vecCalls = <<>>

\* What a call of the embedding provider can come to; without a credential the
\* provider is never called.
EmbedOutcomes(hasKey) == IF hasKey THEN {"ok", "fail"} ELSE {"uncalled"}
TopKs == {1, 10}
RecordBatches == SeqsUpTo(JsonRecords, MaxRecords)

PostRecords ==
    /\ vecReq = NoReq
    /\ \E records \in RecordBatches, namespace \in Namespaces, indexFound \in BOOLEAN :
           \E outcomes \in [1..Len(records) -> EmbedOutcomes(openaiKey)],
              upsertOk \in (IF indexFound THEN BOOLEAN ELSE {FALSE}) :
               upsert_records(records, namespace, outcomes, indexFound, upsertOk)
    /\ UNCHANGED NotVec

PostSearch ==
    /\ vecReq = NoReq
    /\ \E text_query \in Texts, namespace \in Namespaces, top_k \in TopKs,
          outcome \in EmbedOutcomes(openaiKey), indexFound \in BOOLEAN, queryOk \in BOOLEAN :
           \E found \in QueryResults(vecIndex, namespace, top_k) :
               search_records(text_query, namespace, found, outcome, indexFound, queryOk)
    /\ UNCHANGED NotVec

NextVec == PostRecords \/ PostSearch \/ DeliverVec

(***************************************************************************)
(* The notecrafts endpoints over the index "notecrafts-test"               *)
(***************************************************************************)
\* request.headers.get("X-User-ID"): a user id, or None without the header.  The
\* user ids are those that name a namespace of the index.
UserHeaders == (Tenants \cap Namespaces) \cup {PyNone}

\* Python's "a or b" for strings and None.
PyOr(a, b) == IF Falsy(a) THEN b ELSE a

\* Most records in one save-text request.
MaxNotes == 1

\* The records a save-text body carries: _id and content, and a metadata object
\* of the client's own or none.
NoteRecords ==
    {[_id |-> i, content |-> c] : i \in RecordIds, c \in Texts}
        \cup {[_id |-> i, content |-> c, metadata |-> [userId |-> u]] :
                 i \in RecordIds, c \in Texts, u \in Tenants}
NoteBatches == SeqsUpTo(NoteRecords, MaxNotes)

\* save-text: if "metadata" not in record: record["metadata"] = {};
\*            record["metadata"]["userId"] = user_id
TagRecord(record, user_id) ==
    LET old == IF "metadata" \in DOMAIN record THEN record.metadata ELSE <<>>
        new == [k \in DOMAIN old \cup {"userId"} |-> IF k = "userId" THEN user_id ELSE old[k]]
    IN  [k \in DOMAIN record \cup {"metadata"} |-> IF k = "metadata" THEN new ELSE record[k]]

TagRecords(records, user_id) ==
    IF Falsy(user_id) THEN records
    ELSE [i \in 1..Len(records) |-> TagRecord(records[i], user_id)]

\* POST /notecrafts/save-text
save_text_to_notecrafts(user_id, records, bodyNs, outcomes, indexFound, upsertOk) ==
    LET namespace == PyOr(PyOr(bodyNs, user_id), "")
        r == PineconeService_upsert_records(vecIndex, TagRecords(records, user_id), namespace,
                                            openaiKey, outcomes, indexFound, upsertOk)
    IN  /\ vecReq' = [op |-> "POST save-text", user_id |-> user_id, records |-> records,
                      namespace |-> bodyNs]
        /\ vecIndex' = r.index
        /\ vecCalls' = r.calls
        /\ vecResp' = IF r.status # "success"
                      THEN [code |-> 500, status |-> "error", result |-> r.status,
                            matches |-> <<>>]
                      ELSE [code |-> 200, status |-> "success", result |-> r.status,
                            matches |-> <<>>]
        /\ UNCHANGED openaiKey

\* "Filter results by user ID if available": if user_id and matches
FilterByUser(matches, user_id) ==
    IF ~Falsy(user_id) /\ matches # <<>>
    THEN SelectSeq(matches, LAMBDA m : MatchUserId(m) = user_id)
    ELSE matches

\* "Filter by specific IDs if provided": if filter_ids and matches
FilterByIds(matches, filter_ids) ==
    IF filter_ids # {} /\ matches # <<>>
    THEN SelectSeq(matches, LAMBDA m : m.id \in filter_ids)
    ELSE matches

\* POST /notecrafts/search-texts
search_texts_in_notecrafts(user_id, text_query, bodyNs, filter_ids, found, outcome, indexFound, queryOk) ==
    LET namespace == PyOr(PyOr(bodyNs, user_id), "")
        r == PineconeService_search_records(text_query, namespace, found, openaiKey,
                                            outcome, indexFound, queryOk)
    IN  /\ vecReq' = [op |-> "POST search-texts", user_id |-> user_id,
                      text_query |-> text_query, namespace |-> bodyNs,
                      filter_ids |-> filter_ids]
        /\ vecCalls' = r.calls
        /\ vecResp' = IF r.status # "success"
                      THEN [code |-> 500, status |-> "error", result |-> r.status,
                            matches |-> <<>>]
                      ELSE [code |-> 200, status |-> "success", result |-> r.status,
                            matches |-> FilterByIds(FilterByUser(r.matches, user_id),
                                                    filter_ids)]
        /\ UNCHANGED <<vecIndex, openaiKey>>

\* The bodies' filter.ids: absent, or a list of ids.
FilterIds == {{}, {"r1"}}

PostSaveText ==
    /\ vecReq = NoReq
    /\ \E user_id \in UserHeaders, records \in NoteBatches, bodyNs \in Namespaces,
          indexFound \in BOOLEAN :
           \E outcomes \in [1..Len(records) -> EmbedOutcomes(openaiKey)],
              upsertOk \in (IF indexFound THEN BOOLEAN ELSE {FALSE}) :
               save_text_to_notecrafts(user_id, records, bodyNs, outcomes, indexFound, upsertOk)
    /\ UNCHANGED NotVec

PostSearchTexts ==
    /\ vecReq = NoReq
    /\ \E user_id \in UserHeaders, text_query \in Texts, bodyNs \in Namespaces,
          filter_ids \in FilterIds, top_k \in TopKs, outcome \in EmbedOutcomes(openaiKey),
          indexFound \in BOOLEAN, queryOk \in BOOLEAN :
           \E found \in QueryResults(vecIndex, PyOr(PyOr(bodyNs, user_id), ""), top_k) :
               search_texts_in_notecrafts(user_id, text_query, bodyNs, filter_ids, found,
                                          outcome, indexFound, queryOk)
    /\ UNCHANGED NotVec

NextNotecrafts == PostSaveText \/ PostSearchTexts \/ DeliverVec

(***************************************************************************)
(* Two server processes over the one text-block table                      *)
(***************************************************************************)
\* The handler has no lock, transaction or condition expression, and each
\* put_item is a request of its own to the table, so between two puts of one
\* process the table can execute puts of another process.
Workers == {"w1", "w2"}

WorkerPayloads == {[content |-> "one", order |-> 0], [content |-> "two", order |-> 1]}

\* The bodies sent to the processes: each block id at most once per body.
WorkerBatches ==
    {b \in SeqsUpTo({[id |-> i, content |-> p.content, order |-> p.order] :
                        i \in BlockIds, p \in WorkerPayloads}, Cardinality(BlockIds)) :
        \A m \in 1..Len(b) : \A n \in 1..Len(b) : m # n => b[m].id # b[n].id}

Idle == [pc |-> "idle"]

Done(pid, blocks, code, saved) ==
    [pc |-> "done", pid |-> pid, blocks |-> blocks, code |-> code, saved |-> saved]

\* A process takes a request: the body is validated and the handler is about
\* to put block 1 (an empty body is answered at once).
WorkerReceive(w) ==
    /\ workers[w] = Idle
    /\ \E pid \in Projects, blocks \in WorkerBatches :
           workers' = [workers EXCEPT ![w] =
               IF blocks = <<>> THEN Done(pid, blocks, 200, <<>>)
               ELSE [pc |-> "loop", pid |-> pid, blocks |-> blocks, i |-> 1,
                     saved |-> <<>>]]
    /\ UNCHANGED <<textBlocks, lastSaved, tbReq, tbResp, tbCalls, putLog, inserted>>
    /\ UNCHANGED NotTable

\* One iteration of the handler's for loop in process w: save_text_block puts
\* block i.  A put that raises ends the handler with a 500; after the last
\* block the handler sorts saved_blocks and returns them.
WorkerPut(w) ==
    /\ workers[w].pc = "loop"
    /\ \E ok \in BOOLEAN :
           LET st    == workers[w]
               b     == st.blocks[st.i]
               order == OrderOf(b, st.i)
               call  == [op |-> "put", idx |-> st.i, pid |-> st.pid, bid |-> b.id,
                         content |-> b.content, order |-> order, ok |-> ok]
               saved == Append(st.saved, SavedBlock(b.id, b.content, order))
           IN  /\ lastSaved' = ApplyCalls(lastSaved, <<call>>)
               /\ IF ok
                  THEN /\ textBlocks' = PutItem(textBlocks,
                                            TextBlockItem(st.pid, b.id, b.content, order))
                       /\ putLog' = Append(putLog, [w |-> w, pid |-> st.pid, bid |-> b.id,
                                                    content |-> b.content, order |-> order])
                       /\ workers' = [workers EXCEPT ![w] =
                              IF st.i = Len(st.blocks)
                              THEN Done(st.pid, st.blocks, 200, SortByOrder(saved))
                              ELSE [st EXCEPT !.i = st.i + 1, !.saved = saved]]
                  ELSE /\ workers' = [workers EXCEPT ![w] =
                              Done(st.pid, st.blocks, 500, <<>>)]
                       /\ UNCHANGED <<textBlocks, putLog>>
    /\ UNCHANGED <<tbReq, tbResp, tbCalls, inserted>>
    /\ UNCHANGED NotTable

InitWorkers ==
    /\ workers = [w \in Workers |-> Idle]
    /\ putLog = <<>>

NextWorkers == \E w \in Workers : WorkerReceive(w) \/ WorkerPut(w)

InitRead == inserted = <<>>

(***************************************************************************)
(* Projects: table NotebookBuddy_Project and the /projects endpoints       *)
(***************************************************************************)
UserIds      == {"u1", "u2"}
Titles       == {"t1", "t2"}
EditedAts    == {"e1", ""}
AssistantIds == {"asst1", "asst2"}

\* datetime.utcnow().isoformat(): the reading itself is left out.
UtcNow == "now"

\* CanvasData; its blocks, which the handlers copy and never inspect, are one
\* fixed list.
Canvases == [id : Projects, title : Titles, editedAt : EditedAts, blocks : {<<>>}]

\* What AssistantService.create_assistant comes to: the dict it builds from the
\* provider's answer, which always has the key id, or an exception.
AssistantRaised == [raised |-> TRUE]
AssistantResults ==
    {AssistantRaised} \cup
    {[raised |-> FALSE, dict |-> [id |-> a, name |-> "Project Assistant"]] : a \in AssistantIds}

\* The item create_project prepares.
CreateItem(userId, canvas, assistant_dict) ==
    [projectId   |-> canvas.id,
     userId      |-> userId,
     title       |-> canvas.title,
     editedAt    |-> IF canvas.editedAt = "" THEN UtcNow ELSE canvas.editedAt,
     blocks      |-> canvas.blocks,
     dateCreated |-> UtcNow,
     assistantId |-> assistant_dict.id,
     metadata    |-> [assistantName |-> assistant_dict.name, lastModified |-> UtcNow]]

\* The item update_project prepares.
UpdateItem(userId, canvas) ==
    [userId       |-> userId,
     projectId    |-> canvas.id,
     title        |-> canvas.title,
     lastModified |-> canvas.editedAt,
     blocks       |-> canvas.blocks]

\* An update that writes the new attributes over the stored item and keeps the
\* stored attributes the request does not name.
MergeProject(table, item) ==
    [table EXCEPT ![item.projectId] =
        IF table[item.projectId] = {} THEN {item}
        ELSE {LET old == CHOOSE x \in table[item.projectId] : TRUE
              IN  [a \in DOMAIN old \cup DOMAIN item |->
                      IF a \in DOMAIN item THEN item[a] ELSE old[a]]}]

\* DynamoDBService.save_project: table.put_item(Item=item) -- the item replaces
\* the one stored under its projectId.
SaveProject(table, item) == [table EXCEPT ![item.projectId] = {item}]

\* The log entry of a put_item call; old is history: what was stored under the
\* projectId when the call was made.
PutCall(item, ok, old) == [op |-> "put", ok |-> ok, item |-> item, old |-> old]

\* The log entry of a create_assistant call, with the id it returned.
AssistantCall(asst) ==
    [op |-> "create_assistant", ok |-> ~asst.raised,
     id |-> IF asst.raised THEN "" ELSE asst.dict.id]

\* A handler that writes the project record before it provisions the assistant.
create_project_write_first(userId, canvas, asst, putOk) ==
    LET item == CreateItem(userId, canvas, [id |-> "pending", name |-> "pending"])
    IN  /\ prReq' = [op |-> "POST /projects/create", userId |-> userId, canvas |-> canvas]
        /\ projects' = IF putOk THEN SaveProject(projects, item) ELSE projects
        /\ prCalls' = <<PutCall(item, putOk, projects[canvas.id]), AssistantCall(asst)>>
        /\ prResp' = IF putOk /\ ~asst.raised
                     THEN [code |-> 200, status |-> "success", trace |-> FALSE,
                           project |-> {item}]
                     ELSE [code |-> 500, status |-> "error", trace |-> TRUE, project |-> {}]

\* POST /projects/create.  The assistant is created first; a failure there, an
\* answer without id, and a failing save each raise HTTPException(500) inside
\* the outer try, whose "except Exception" answers 500 with a detail that
\* holds the message and traceback.format_exc().
create_project(userId, canvas, asst, putOk) ==
    LET acall == AssistantCall(asst)
    IN  /\ prReq' = [op |-> "POST /projects/create", userId |-> userId, canvas |-> canvas]
        /\ IF asst.raised \/ "id" \notin DOMAIN asst.dict
           THEN /\ prCalls' = <<acall>>
                /\ prResp' = [code |-> 500, status |-> "error", trace |-> TRUE,
                              project |-> {}]
                /\ UNCHANGED projects
           ELSE LET item == CreateItem(userId, canvas, asst.dict)
                IN  /\ prCalls' = <<acall, PutCall(item, putOk, projects[canvas.id])>>
                    /\ projects' = IF putOk THEN SaveProject(projects, item) ELSE projects
                    /\ prResp' = IF putOk
                                 THEN [code |-> 200, status |-> "success", trace |-> FALSE,
                                       project |-> {item}]
                                 ELSE [code |-> 500, status |-> "error", trace |-> TRUE,
                                       project |-> {}]

\* POST /projects/update.  A failing save is answered 500 with str(e) as the
\* detail; the traceback goes to the log.
update_project(userId, canvas, putOk) ==
    LET item == UpdateItem(userId, canvas)
    IN  /\ prReq' = [op |-> "POST /projects/update", userId |-> userId, canvas |-> canvas]
        /\ prCalls' = <<PutCall(item, putOk, projects[canvas.id])>>
        /\ projects' = IF putOk THEN SaveProject(projects, item) ELSE projects
        /\ prResp' = IF putOk
                     THEN [code |-> 200, status |-> "success", trace |-> FALSE,
                           project |-> {item}]
                     ELSE [code |-> 500, status |-> "error", trace |-> FALSE, project |-> {}]

\* The stored projects of a user: what the userId-index query and the scan
\* filtered by userId both select.
ItemsOfUser(table, user_id) ==
    {x \in UNION {table[p] : p \in Projects} : x.userId = user_id}

\* A lookup that fails when the index query fails.
GetUserProjectsNoFallback(table, user_id, gsiOk, scanOk) ==
    IF gsiOk
    THEN [raised |-> "", items |-> ItemsOfUser(table, user_id),
          calls |-> <<[op |-> "query_index", ok |-> TRUE]>>]
    ELSE [raised |-> "Error getting user projects", items |-> {},
          calls |-> <<[op |-> "query_index", ok |-> FALSE]>>]

\* DynamoDBService.get_user_projects: the userId-index query first; when it
\* raises, or finds nothing, a scan filtered by userId; a failing scan is
\* re-raised as "Error getting user projects: ...".
GetUserProjects(table, user_id, gsiOk, scanOk) ==
    LET q == [op |-> "query_index", ok |-> gsiOk]
        c == [op |-> "scan", ok |-> scanOk]
    IN  IF gsiOk /\ ItemsOfUser(table, user_id) # {}
        THEN [raised |-> "", items |-> ItemsOfUser(table, user_id), calls |-> <<q>>]
        ELSE IF scanOk
             THEN [raised |-> "", items |-> ItemsOfUser(table, user_id), calls |-> <<q, c>>]
             ELSE [raised |-> "Error getting user projects", items |-> {},
                   calls |-> <<q, c>>]

\* A direct call of DynamoDBService.get_user_projects(user_id).
CallGetUserProjects(user_id, gsiOk, scanOk) ==
    LET r == GetUserProjects(projects, user_id, gsiOk, scanOk)
    IN  /\ prReq' = [op |-> "get_user_projects", userId |-> user_id]
        /\ prCalls' = r.calls
        /\ prResp' = [code |-> 0, status |-> "return", raised |-> r.raised,
                      items |-> r.items]
        /\ UNCHANGED projects

DeliverProjects ==
    /\ prReq # NoReq
    /\ prReq' = NoReq
    /\ prResp' = NoResp
    /\ prCalls' = <<>>
    /\ UNCHANGED projects
    /\ UNCHANGED NotProjects

InitProjects ==
    /\ projects = [p \in Projects |-> {}]
    /\ prReq = NoReq
    /\ prResp = NoResp
    /\ prCalls = <<>>

PostCreateProject ==
    /\ prReq = NoReq
    /\ \E userId \in UserIds, canvas \in Canvases, asst \in AssistantResults,
          putOk \in BOOLEAN :
           create_project(userId, canvas, asst, putOk)
    /\ UNCHANGED NotProjects

PostUpdateProject ==
    /\ prReq = NoReq
    /\ \E userId \in UserIds, canvas \in Canvases, putOk \in BOOLEAN :
           update_project(userId, canvas, putOk)
    /\ UNCHANGED NotProjects

ServiceGetUserProjects ==
    /\ prReq = NoReq
    /\ \E user_id \in UserIds, gsiOk \in BOOLEAN, scanOk \in BOOLEAN :
           CallGetUserProjects(user_id, gsiOk, scanOk)
    /\ UNCHANGED NotProjects

NextProjects ==
    \/ PostCreateProject
    \/ PostUpdateProject
    \/ ServiceGetUserProjects
    \/ DeliverProjects

(***************************************************************************)
(* The routes of main.py: GET / and GET /test                              *)
(***************************************************************************)
\* What os.getenv finds for AWS_REGION and for API_URL: a value, or nothing.
Unset == "unset"
AwsRegions == {"us-east-1", Unset}
ApiUrls == {"http://localhost:8000", Unset}

\* os.getenv(name, default)
Getenv(value, default) == IF value = Unset THEN default ELSE value

\* root(): the body is a literal.
root == [message |-> "Welcome to Notebook Buddy API"]

\* test_endpoint(): two literals and the two environment values.
test_endpoint(env) ==
    [status |-> "success",
     message |-> "Server is running",
     environment |-> [AWS_REGION |-> Getenv(env.AWS_REGION, "not set"),
                      API_URL |-> Getenv(env.API_URL, "not set")]]

\* A dict returned by a handler is sent with status 200.
JSONResponse(body) == [code |-> 200, body |-> body]

GetRoot ==
    /\ mainReq = NoReq
    /\ mainReq' = [op |-> "GET /"]
    /\ mainResp' = JSONResponse(root)
    /\ UNCHANGED <<environ, storeVars, mgrVars, regVars, upVars>>

GetTest ==
    /\ mainReq = NoReq
    /\ mainReq' = [op |-> "GET /test"]
    /\ mainResp' = JSONResponse(test_endpoint(environ))
    /\ UNCHANGED <<environ, storeVars, mgrVars, regVars, upVars>>

DeliverMain ==
    /\ mainReq # NoReq
    /\ mainReq' = NoReq
    /\ mainResp' = NoResp
    /\ UNCHANGED <<environ, storeVars, mgrVars, regVars, upVars>>

InitMain ==
    /\ environ \in [AWS_REGION : AwsRegions, API_URL : ApiUrls]
    /\ mainReq = NoReq
    /\ mainResp = NoResp

\* The two routes next to the credential endpoints, whose requests change
\* what is stored while GET / and GET /test are answered.
NextMain == GetRoot \/ GetTest \/ DeliverMain \/ NextAuth

(***************************************************************************)
(* POST /auth/register on the threads of the server's pool                 *)
(***************************************************************************)
\* register is a plain "def": the framework runs each request on a thread of
\* its pool, so two requests overlap, each between its store calls.
Threads == {"t1", "t2"}

\* What get_item can come to.
LookupOutcomes == BOOLEAN

\* register up to "if existing_user": the lookup, then HTTPException(400) for an
\* existing user (which the outer except turns into a 500), or on to create_user.
RegisterCheck(t) ==
    /\ regs[t].pc = "idle"
    /\ \E email \in Emails, password \in Passwords \cup {NoPassword}, lookupOk \in LookupOutcomes :
          LET existing == get_user_by_email(users, email, lookupOk)
          IN  regs' = [regs EXCEPT ![t] =
                          IF existing # {}
                          THEN [pc |-> "done", email |-> email, code |-> 500]
                          ELSE [pc |-> "create", email |-> email, password |-> password]]
    /\ UNCHANGED <<users, created, authReq, authResp, authCalls>>
    /\ UNCHANGED <<tbVars, vecVars, wkVars, rdVars, prVars, mainVars, mgrVars, upVars>>

\* register from auth_service.create_user on: the put, then the success
\* envelope or a 500.
RegisterCreate(t) ==
    /\ regs[t].pc = "create"
    /\ \E salt \in Salts, putOk \in BOOLEAN :
          LET r == AuthService_create_user(regs[t].email, regs[t].password, salt, putOk)
          IN  /\ users' = IF r.item = {} THEN users
                          ELSE [users EXCEPT ![regs[t].email] = r.item]
              /\ created' = IF r.item = {} THEN created
                            ELSE [created EXCEPT ![regs[t].email] = {regs[t].password}]
              /\ regs' = [regs EXCEPT ![t] =
                             [pc |-> "done", email |-> regs[t].email,
                              code |-> IF r.raised = "" THEN 200 ELSE 500]]
    /\ UNCHANGED <<authReq, authResp, authCalls>>
    /\ UNCHANGED <<tbVars, vecVars, wkVars, rdVars, prVars, mainVars, mgrVars, upVars>>

\* The response is sent; the thread takes the next request.
RegisterDone(t) ==
    /\ regs[t].pc = "done"
    /\ regs' = [regs EXCEPT ![t] = Idle]
    /\ UNCHANGED authVars
    /\ UNCHANGED <<tbVars, vecVars, wkVars, rdVars, prVars, mainVars, mgrVars, upVars>>

InitRegister == regs = [t \in Threads |-> Idle]

NextRegister == \E t \in Threads : RegisterCheck(t) \/ RegisterCreate(t) \/ RegisterDone(t)

(***************************************************************************)
(* The DynamoDB connection: the DynamoDBManager classes and their users    *)
(***************************************************************************)
\* Two classes carry the name DynamoDBManager, one per module, each with its
\* own _instance and _tables.
ManagerClasses == {"aws_config", "dynamodb_service"}

\* Who calls session.resource('dynamodb').
Creators == ManagerClasses \cup {"AuthService"}

TableNames == {"NotebookBuddy_User", "NotebookBuddy_TextBlocks", "NotebookBuddy_Project"}

\* Most calls of DynamoDBManager() (per class) and of DynamoDBService() after
\* the start.
MaxConstructs == 2

\* _instance = None, _tables = {}
NoManager == [instance |-> FALSE, dynamodb |-> FALSE, tables |-> [n \in TableNames |-> {}]]

\* DynamoDBManager.__new__ with _initialize: the first call stores the new
\* object in _instance and then initializes it, which creates the resource and
\* lists the tables (ok: that went through; otherwise _initialize re-raises and
\* the stored object stays without its dynamodb attribute); a later call
\* returns _instance as it is.
New(mgr, ok) ==
    IF ~mgr.instance
    THEN [mgr      |-> [mgr EXCEPT !.instance = TRUE, !.dynamodb = ok],
          inits    |-> 1,
          raised   |-> ~ok]
    ELSE [mgr |-> mgr, inits |-> 0, raised |-> FALSE]

\* The handle self.dynamodb.Table(table_name) makes on its n-th call for a name.
Handle(cls, name, n) == [cls |-> cls, name |-> name, n |-> n]

\* DynamoDBManager.get_table: a name not in _tables gets a new handle, which is
\* kept; the kept handle is returned.  given: the handles returned for the name
\* so far.  Without the dynamodb attribute the lookup of self.dynamodb raises.
GetTable(cls, mgr, name, given) ==
    IF mgr.tables[name] = {}
    THEN IF ~mgr.dynamodb
         THEN [mgr |-> mgr, handle |-> {}, raised |-> TRUE]
         ELSE LET h == Handle(cls, name, Cardinality(given) + 1)
              IN  [mgr |-> [mgr EXCEPT !.tables[name] = {h}], handle |-> {h},
                   raised |-> FALSE]
    ELSE [mgr |-> mgr, handle |-> mgr.tables[name], raised |-> FALSE]

\* dynamodb_manager = DynamoDBManager() at the end of a module.
Construct(cls, ok) ==
    LET r == New(managers[cls], ok)
    IN  /\ managers' = [managers EXCEPT ![cls] = r.mgr]
        /\ initCalls' = [initCalls EXCEPT ![cls] = @ + r.inits]

\* dynamodb_manager.get_table(name) of one module.
CallGetTable(cls, name) ==
    LET r == GetTable(cls, managers[cls], name, handed[<<cls, name>>])
    IN  /\ managers' = [managers EXCEPT ![cls] = r.mgr]
        /\ handed' = [handed EXCEPT ![<<cls, name>>] = @ \cup r.handle]

\* DynamoDBService.__init__: get_table(TABLE_USER), get_table(TABLE_TEXT_BLOCKS)
\* on the manager of dynamodb_service.
DynamoDBService_init ==
    LET cls == "dynamodb_service"
        r1 == GetTable(cls, managers[cls], "NotebookBuddy_User",
                       handed[<<cls, "NotebookBuddy_User">>])
        r2 == GetTable(cls, r1.mgr, "NotebookBuddy_TextBlocks",
                       handed[<<cls, "NotebookBuddy_TextBlocks">>])
    IN  /\ managers' = [managers EXCEPT ![cls] = r2.mgr]
        /\ handed' = [handed EXCEPT ![<<cls, "NotebookBuddy_User">>] = @ \cup r1.handle,
                                    ![<<cls, "NotebookBuddy_TextBlocks">>] = @ \cup r2.handle]

\* main.py imports api.endpoints, whose __init__ imports auth, projects,
\* assistants, text_blocks, ... in this order; an exception ends the process.

\* auth.py: auth_service = AuthService(), which creates a session and a
\* DynamoDB resource of its own and tests the connection.
StartAuth ==
    /\ startup = "main"
    /\ \E ok \in BOOLEAN :
          /\ initCalls' = [initCalls EXCEPT !["AuthService"] = @ + 1]
          /\ startup' = IF ok THEN "auth" ELSE "crashed"
    /\ UNCHANGED <<awsSession, managers, handed, constructed, mainVars, regVars, upVars, storeVars>>

\* projects.py imports dynamodb_service, whose first statement of interest is
\* "from .aws_config import aws_session": aws_config runs, builds its manager,
\* and then the name aws_session is looked up in it.
StartAwsConfig ==
    /\ startup = "auth"
    /\ \E ok \in BOOLEAN :
          /\ Construct("aws_config", ok)
          /\ startup' = IF ok /\ awsSession THEN "aws_config" ELSE "crashed"
    /\ UNCHANGED <<awsSession, handed, constructed, mainVars, regVars, upVars, storeVars>>

\* dynamodb_service.py: its own class DynamoDBManager and dynamodb_manager.
StartDynamoDBService ==
    /\ startup = "aws_config"
    /\ \E ok \in BOOLEAN :
          /\ Construct("dynamodb_service", ok)
          /\ startup' = IF ok THEN "dynamodb_service" ELSE "crashed"
    /\ UNCHANGED <<awsSession, handed, constructed, mainVars, regVars, upVars, storeVars>>

\* projects.py: dynamodb_service = DynamoDBService()
StartProjects ==
    /\ startup = "dynamodb_service"
    /\ DynamoDBService_init
    /\ startup' = "projects"
    /\ UNCHANGED <<awsSession, initCalls, constructed, mainVars, regVars, upVars, storeVars>>

\* text_blocks.py: dynamodb_service = DynamoDBService(); the import is over.
StartTextBlocks ==
    /\ startup = "projects"
    /\ DynamoDBService_init
    /\ startup' = "serving"
    /\ UNCHANGED <<awsSession, initCalls, constructed, mainVars, regVars, upVars, storeVars>>

\* Any later DynamoDBManager() of either class.
NewManager ==
    /\ startup = "serving"
    /\ \E cls \in ManagerClasses, ok \in BOOLEAN :
          /\ constructed[cls] < MaxConstructs
          /\ Construct(cls, ok)
          /\ constructed' = [constructed EXCEPT ![cls] = @ + 1]
    /\ UNCHANGED <<awsSession, startup, handed, mainVars, regVars, upVars, storeVars>>

\* Any later DynamoDBService().
NewService ==
    /\ startup = "serving"
    /\ constructed["DynamoDBService"] < MaxConstructs
    /\ DynamoDBService_init
    /\ constructed' = [constructed EXCEPT !["DynamoDBService"] = @ + 1]
    /\ UNCHANGED <<awsSession, startup, initCalls, mainVars, regVars, upVars, storeVars>>

\* A get_table call: those of the requests (save_project and get_user_projects
\* ask for 'NotebookBuddy_Project' on each call), or any other.
RequestGetTable ==
    /\ startup = "serving"
    /\ \E cls \in ManagerClasses, name \in TableNames : CallGetTable(cls, name)
    /\ UNCHANGED <<awsSession, startup, initCalls, constructed, mainVars, regVars, upVars, storeVars>>

InitManagers ==
    /\ awsSession \in BOOLEAN
    /\ startup = "main"
    /\ managers = [cls \in ManagerClasses |-> NoManager]
    /\ initCalls = [c \in Creators |-> 0]
    /\ handed = [k \in ManagerClasses \X TableNames |-> {}]
    /\ constructed = [c \in ManagerClasses \cup {"DynamoDBService"} |-> 0]

NextManagers ==
    \/ StartAuth
    \/ StartAwsConfig
    \/ StartDynamoDBService
    \/ StartProjects
    \/ StartTextBlocks
    \/ NewManager
    \/ NewService
    \/ RequestGetTable

(***************************************************************************)
(* POST /upload: files in the uploads directory                            *)
(***************************************************************************)
\* A filename is the sequence of its characters.
Filenames ==
    {<<"a", ".", "p", "d", "f">>, <<"a", " ", ".", "p", "d", "f">>,
     <<"b", ".", "p", "d", "f">>, <<"a", ".", "t", "x", "t">>}

\* The characters of the sample filenames for which str.isalnum() holds.
Alnum == {"a", "b", "d", "f", "p", "t", "x"}

\* file.filename.endswith('.pdf')
EndsWithPdf(filename) ==
    /\ Len(filename) >= 4
    /\ SubSeq(filename, Len(filename) - 3, Len(filename)) = <<".", "p", "d", "f">>

\* "".join(c for c in file.filename if c.isalnum() or c in ('-', '_')).rstrip()
SafeFilename(filename) == SelectSeq(filename, LAMBDA c : c \in Alnum \cup {"-", "_"})

\* os.path.join(UPLOAD_DIR, f"{safe_filename}_{timestamp}.pdf"), kept as its two
\* varying parts.
FilePath(filename, timestamp) == [name |-> SafeFilename(filename), timestamp |-> timestamp]

\* Latest reading of the clock, most upload requests, and the chunks of a body.
MaxClock == 1
MaxUploads == 3
NumChunks == 1

Slots == {"h1", "h2"}

\* open(file_path, "wb"): the file at the path is emptied, or a new one is
\* made; ino tells the files apart that a path holds one after the other.
OpenWb(dir, path, id) ==
    IF path \in DOMAIN dir /\ dir[path] # {}
    THEN [p \in DOMAIN dir |->
             IF p = path THEN {[ino |-> f.ino, data |-> <<>>] : f \in dir[p]} ELSE dir[p]]
    ELSE [p \in DOMAIN dir \cup {path} |->
             IF p = path THEN {[ino |-> id, data |-> <<>>]} ELSE dir[p]]

\* The ino of the file at a path; 0: there is none.
InoAt(dir, path) ==
    IF path \in DOMAIN dir /\ dir[path] # {} THEN (CHOOSE f \in dir[path] : TRUE).ino ELSE 0

\* buffer.write(chunk): the chunk goes into the file the buffer was opened on,
\* which is the file of the path unless that one was removed meanwhile.
WriteChunk(dir, path, ino, id) ==
    IF InoAt(dir, path) = ino /\ ino # 0
    THEN [dir EXCEPT ![path] = {[ino |-> f.ino, data |-> Append(f.data, id)] : f \in dir[path]}]
    ELSE dir

\* if os.path.exists(file_path): os.remove(file_path)
RemoveIfExists(dir, path) ==
    IF InoAt(dir, path) # 0 THEN [dir EXCEPT ![path] = {}] ELSE dir

\* upload_file up to the first "await file.read": the type check (400), the
\* path, the open.
UploadStart(h) ==
    /\ uploads[h].pc = "idle"
    /\ nextId <= MaxUploads
    /\ \E filename \in Filenames :
          IF ~EndsWithPdf(filename)
          THEN /\ uploads' = [uploads EXCEPT ![h] = [pc |-> "done", id |-> nextId, code |-> 400]]
               /\ UNCHANGED <<fs, opened>>
          ELSE LET file_path == FilePath(filename, clock)
               IN  /\ fs' = OpenWb(fs, file_path, nextId)
                   /\ opened' = opened \cup {[id |-> nextId, path |-> file_path]}
                   /\ uploads' = [uploads EXCEPT ![h] =
                                     [pc |-> "reading", id |-> nextId, path |-> file_path,
                                      ino |-> InoAt(fs', file_path), left |-> NumChunks]]
    /\ nextId' = nextId + 1
    /\ UNCHANGED <<clock, completed, storeVars, mainVars, mgrVars, regVars>>

\* One turn of the loop: file.read returns a chunk, which is written; or it
\* returns nothing more, the file is closed and the path returned; or it raises,
\* and the except clause removes whatever is at the path and answers 500.
UploadRead(h) ==
    /\ uploads[h].pc = "reading"
    /\ \E ok \in BOOLEAN :
          LET u == uploads[h]
          IN  IF ~ok
              THEN /\ fs' = RemoveIfExists(fs, u.path)
                   /\ uploads' = [uploads EXCEPT ![h] = [pc |-> "done", id |-> u.id, code |-> 500]]
                   /\ UNCHANGED completed
              ELSE IF u.left > 0
                   THEN /\ fs' = WriteChunk(fs, u.path, u.ino, u.id)
                        /\ uploads' = [uploads EXCEPT ![h].left = u.left - 1]
                        /\ UNCHANGED completed
                   ELSE /\ uploads' = [uploads EXCEPT ![h] =
                                          [pc |-> "done", id |-> u.id, code |-> 200]]
                        /\ completed' = completed \cup {[id |-> u.id, path |-> u.path]}
                        /\ UNCHANGED fs
    /\ UNCHANGED <<clock, nextId, opened, storeVars, mainVars, mgrVars, regVars>>

\* The response is sent.
UploadDone(h) ==
    /\ uploads[h].pc = "done"
    /\ uploads' = [uploads EXCEPT ![h] = Idle]
    /\ UNCHANGED <<clock, fs, nextId, opened, completed, storeVars, mainVars, mgrVars, regVars>>

\* A second passes.
Tick ==
    /\ clock < MaxClock
    /\ clock' = clock + 1
    /\ UNCHANGED <<fs, uploads, nextId, opened, completed, storeVars, mainVars, mgrVars, regVars>>

InitUpload ==
    /\ clock = 0
    /\ fs = <<>>
    /\ uploads = [h \in Slots |-> Idle]
    /\ nextId = 1
    /\ opened = {}
    /\ completed = {}

NextUpload == Tick \/ \E h \in Slots : UploadStart(h) \/ UploadRead(h) \/ UploadDone(h)

(***************************************************************************)
(* Specifications                                                          *)
(***************************************************************************)
\* The subsystems at rest, for the specifications that explore another one.
QuietBlocks == InitBlocks /\ InitWorkers /\ InitRead
QuietAuth   == InitAuth /\ users = [e \in Emails |-> {}]
QuietVec    == InitVec /\ openaiKey
QuietProjects == InitProjects
QuietMain == InitMain /\ environ = [AWS_REGION |-> Unset, API_URL |-> Unset]
QuietManagers == InitManagers /\ awsSession
QuietOther == QuietMain /\ QuietManagers /\ InitRegister /\ InitUpload

BlocksInit == InitBlocks /\ InitWorkers /\ InitRead /\ QuietAuth /\ QuietVec /\ QuietProjects /\ QuietOther
SpecBlocks == BlocksInit /\ [][NextBlocks]_vars

AuthInit == QuietBlocks /\ InitAuth /\ QuietVec /\ QuietProjects /\ QuietOther
SpecAuth == AuthInit /\ [][NextAuth]_vars

VecInit == QuietBlocks /\ QuietAuth /\ InitVec /\ QuietProjects /\ QuietOther
SpecVec == VecInit /\ [][NextVec]_vars

ProjectsInit == QuietBlocks /\ QuietAuth /\ QuietVec /\ InitProjects /\ QuietOther
SpecProjects == ProjectsInit /\ [][NextProjects]_vars

SpecRead == BlocksInit /\ [][NextRead]_vars

\* One request per server process, from an empty table.
SpecWorkers == BlocksInit /\ [][NextWorkers]_vars

MainInit == QuietBlocks /\ InitAuth /\ QuietVec /\ QuietProjects /\ InitMain /\ QuietManagers /\ InitRegister /\ InitUpload
SpecMain == MainInit /\ [][NextMain]_vars

SpecNotecrafts == VecInit /\ [][NextNotecrafts]_vars

StoresInit == QuietBlocks /\ QuietAuth /\ QuietVec /\ QuietProjects

ManagersInit == StoresInit /\ QuietMain /\ InitManagers /\ InitRegister /\ InitUpload

RegisterInit == QuietBlocks /\ InitAuth /\ QuietVec /\ QuietProjects /\ QuietMain /\ QuietManagers /\ InitRegister /\ InitUpload
SpecRegister == RegisterInit /\ [][NextRegister]_vars
SpecManagers == ManagersInit /\ [][NextManagers]_vars

UploadInit == StoresInit /\ QuietMain /\ QuietManagers /\ InitRegister /\ InitUpload
SpecUpload == UploadInit /\ [][NextUpload]_vars

Init == InitBlocks /\ InitWorkers /\ InitRead /\ InitAuth /\ InitVec /\ InitProjects /\ InitMain
        /\ InitManagers /\ InitRegister /\ InitUpload

Next == NextBlocks \/ NextAuth \/ NextVec \/ NextWorkers \/ NextProjects \/ NextRead \/ NextMain
            \/ NextNotecrafts \/ NextManagers \/ NextRegister \/ NextUpload

Spec == Init /\ [][Next]_vars

(***************************************************************************)
(* Claims about the text-block endpoints (checked under SpecBlocks)        *)
(***************************************************************************)
IsAscending(blocks) ==
    \A i \in 1..Len(blocks) : \A j \in 1..Len(blocks) :
        i < j => blocks[i].order <= blocks[j].order

\* C1: a PUT /text-blocks/{projectId} whose N blocks all come without an explicit
\* order (and whose store calls all succeed) is answered 200 with N blocks, sorted
\* ascending by order, block i of the submission carrying order i - 1 (0-based),
\* and each block is stored with that order.
C1_NoOrderBatchSavedByIndex ==
    (/\ tbReq.op = "put_blocks"
     /\ \A i \in 1..Len(tbReq.blocks) : "order" \notin DOMAIN tbReq.blocks[i])
    => /\ tbResp.code = 200
       /\ Len(tbResp.blocks) = Len(tbReq.blocks)
       /\ IsAscending(tbResp.blocks)
       /\ \A i \in 1..Len(tbReq.blocks) :
             /\ tbResp.blocks[i].id = tbReq.blocks[i].id
             /\ tbResp.blocks[i].order = i - 1
             /\ \E x \in ItemsAt(textBlocks, <<tbReq.pid, tbReq.blocks[i].id>>) :
                    x.order \in {j - 1 : j \in {m \in 1..Len(tbReq.blocks) :
                                                 tbReq.blocks[m].id = tbReq.blocks[i].id}}

\* C2: save_text_block is an upsert keyed by (projectId, blockId): in every
\* reachable state the table holds, for each key, exactly one item if the key was
\* saved and not deleted since, none otherwise, and that item carries the content
\* and the order of the latest successful save of the key.
C2_UpsertOneRecordPerKey ==
    \A k \in Keys :
        /\ Cardinality(ItemsAt(textBlocks, k)) = Cardinality(lastSaved[k])
        /\ \A x \in ItemsAt(textBlocks, k) : \A v \in lastSaved[k] :
               x.content = v.content /\ x.order = v.order

\* C2's case: one request saved the same (projectId, blockId) twice with
\* different values, and the table holds one item for it, with the second values.
C2_Witness ==
    /\ tbReq.op = "put_blocks"
    /\ tbResp.code = 200
    /\ Len(tbReq.blocks) = 2
    /\ tbReq.blocks[1].id = tbReq.blocks[2].id
    /\ tbReq.blocks[1].order # tbReq.blocks[2].order
    /\ tbReq.blocks[1].content # tbReq.blocks[2].content
    /\ \E x \in textBlocks :
          /\ ItemsAt(textBlocks, <<tbReq.pid, tbReq.blocks[2].id>>) = {x}
          /\ x.order = tbReq.blocks[2].order
          /\ x.content = tbReq.blocks[2].content

OtherItems(table, k) == {x \in table : KeyOf(x) # k}

\* C3: a DELETE /text-blocks/{projectId}/{blockId} answers with an error only
\* when the delete_item call itself fails: for a block that is not stored it
\* answers with the success envelope and leaves the table as it was.  Every
\* DELETE leaves the items under other keys unchanged, and after a successful one
\* nothing is stored under the key, so that a repeated DELETE meets an absent
\* block and changes nothing more.
C3_DeleteAbsentIsNoError ==
    [][(tbReq = NoReq /\ tbReq'.op = "delete_block") =>
          LET k == <<tbReq'.pid, tbReq'.bid>>
              storeOk == tbCalls'[1].ok
          IN  /\ Len(tbCalls') = 1
              /\ storeOk => (tbResp'.code = 200 /\ tbResp'.status = "success")
              /\ tbResp'.status = "error" => ~storeOk
              /\ OtherItems(textBlocks', k) = OtherItems(textBlocks, k)
              /\ ItemsAt(textBlocks, k) = {} => textBlocks' = textBlocks
              /\ storeOk => ItemsAt(textBlocks', k) = {}
      ]_vars

\* C3's case: a DELETE of a block that is not stored, in a project that holds
\* another block, has been answered with the success envelope.
C3_Witness ==
    /\ tbReq.op = "delete_block"
    /\ tbResp.status = "success"
    /\ lastSaved[<<tbReq.pid, tbReq.bid>>] = {}
    /\ \E x \in textBlocks : x.projectId = tbReq.pid /\ x.textBlockId # tbReq.bid

\* The index of the last block among the first n of the batch that has id bid
\* (0: there is none).
LastPutOf(blocks, n, bid) ==
    LET hits == {j \in 1..n : blocks[j].id = bid}
    IN  IF hits = {} THEN 0 ELSE CHOOSE j \in hits : \A m \in hits : m <= j

\* C10: a batch save puts its blocks one at a time in submission order: call j
\* is the put of block j.  Only the last call can have failed; when it has, the
\* request is answered with an error, no later block is put, the failing block
\* is not put again, and the blocks put before it stay stored (no rollback);
\* when none has, every block was put and the answer is 200.
C10_BatchStopsAtFirstFailure ==
    [][(tbReq = NoReq /\ tbReq'.op = "put_blocks" /\ ValidPayload(tbReq'.blocks)) =>
          LET blocks == tbReq'.blocks
              pid    == tbReq'.pid
              calls  == tbCalls'
              n      == Len(calls)
              failed == n >= 1 /\ ~calls[n].ok
              done   == IF failed THEN n - 1 ELSE n
          IN  /\ n <= Len(blocks)
              /\ \A j \in 1..n :
                    /\ calls[j].op = "put"
                    /\ calls[j].idx = j
                    /\ calls[j].pid = pid
                    /\ calls[j].bid = blocks[j].id
                    /\ j < n => calls[j].ok
              /\ failed => tbResp'.code = 500 /\ tbResp'.status = "error"
              /\ ~failed => n = Len(blocks) /\ tbResp'.code = 200
              /\ \A k \in Keys :
                    LET j == IF k[1] = pid THEN LastPutOf(blocks, done, k[2]) ELSE 0
                    IN  IF j = 0
                        THEN ItemsAt(textBlocks', k) = ItemsAt(textBlocks, k)
                        ELSE ItemsAt(textBlocks', k) =
                                 {[projectId |-> pid, textBlockId |-> blocks[j].id,
                                   content |-> blocks[j].content,
                                   order |-> blocks[j].order]}
      ]_vars

\* C10's case: the put of the second block of a batch failed; the first block is
\* stored, the second is not, and the request ended with an error.
C10_Witness ==
    /\ tbReq.op = "put_blocks"
    /\ Len(tbReq.blocks) = 2
    /\ tbReq.blocks[1].id # tbReq.blocks[2].id
    /\ Len(tbCalls) = 2
    /\ tbCalls[1].ok
    /\ ~tbCalls[2].ok
    /\ tbResp.code = 500
    /\ ItemsAt(textBlocks, <<tbReq.pid, tbReq.blocks[1].id>>) # {}
    /\ ItemsAt(textBlocks, <<tbReq.pid, tbReq.blocks[2].id>>) = {}


(***************************************************************************)
(* Claims about the credential store                                       *)
(***************************************************************************)
\* The password the stored credential of an email was created with.
CreatedWith(email) == CHOOSE pw \in created[email] : TRUE

ReturnsUser(email) ==
    /\ authResp.raised = ""
    /\ authResp.user # {}
    /\ \A u \in authResp.user : u.email = email

ReturnsAbsent ==
    /\ authResp.raised = ""
    /\ authResp.user = {}

\* C7, as the specification states it: after create_user(email, password),
\* authenticate_user(email, p), its lookup answered, returns the user with that
\* email when p is the password and returns None when p is any other password.
C7_AuthenticatesExactlyThePassword ==
    (/\ authReq.op = "authenticate_user"
     /\ created[authReq.email] # {}
     /\ authCalls[1].ok)
    => IF authReq.password = CreatedWith(authReq.email)
       THEN ReturnsUser(authReq.email)
       ELSE ReturnsAbsent

\* C7, amended: after create_user(email, password), authenticate_user(email, p)
\* returns the user with that email exactly when its lookup is answered and p
\* agrees with the password on the first 72 bytes -- so always for the password
\* itself -- and returns None otherwise; it never raises.
C7_AuthenticatesOnFirst72Bytes ==
    (/\ authReq.op = "authenticate_user"
     /\ created[authReq.email] # {})
    => IF authCalls[1].ok /\ authReq.password.head = CreatedWith(authReq.email).head
       THEN ReturnsUser(authReq.email)
       ELSE ReturnsAbsent

\* A password other than the created one, equal to it on the first 72 bytes, has
\* been presented and the user returned.
C7_Witness ==
    /\ authReq.op = "authenticate_user"
    /\ created[authReq.email] # {}
    /\ authReq.password # CreatedWith(authReq.email)
    /\ authReq.password.head = CreatedWith(authReq.email).head
    /\ authResp.user # {}

\* C8: POST /auth/create-user with neither a password nor a provider is answered
\* with a validation error (400 or 422) and puts no user record.
C8_NoCredentialIsValidationError ==
    (/\ authReq.op = "POST /auth/create-user"
     /\ authReq.password = NoPassword
     /\ authReq.provider = PyNone)
    => /\ authResp.code \in {400, 422}
       /\ \A i \in 1..Len(authCalls) : authCalls[i].op # "put"

\* C9: authenticate_user returns None without raising when no user is stored for
\* the email, when the stored user has no hashed_password attribute, and when
\* the password does not verify against the stored hash.
C9_AbsentWithoutRaising ==
    (/\ authReq.op = "authenticate_user"
     /\ \/ users[authReq.email] = {}
        \/ \E u \in users[authReq.email] :
               \/ "hashed_password" \notin DOMAIN u
               \/ ("hashed_password" \in DOMAIN u
                     /\ ~VerifyPassword(authReq.password, u.hashed_password)))
    => ReturnsAbsent


(***************************************************************************)
(* Claims about the vector record pipeline                                 *)
(***************************************************************************)
InvalidRecord(record) ==
    Falsy(DictGet(record, "_id")) \/ Falsy(DictGet(record, "content"))

\* C4: a POST records request in which any record, at any position, has a
\* missing or empty _id or content gets an error result, leaves the index as it
\* was and makes no upsert call to it.
C4_UpsertRejectsWholeBatch ==
    [][(/\ vecReq = NoReq
        /\ vecReq'.op = "POST records"
        /\ \E i \in 1..Len(vecReq'.records) : InvalidRecord(vecReq'.records[i]))
       => /\ vecResp'.result = "error"
          /\ vecIndex' = vecIndex
          /\ \A i \in 1..Len(vecCalls') : vecCalls'[i].op # "upsert"]_vars

\* A batch whose first record is valid and was embedded and whose second record
\* is invalid has been rejected, with the index found.
C4_Witness ==
    /\ vecReq.op = "POST records"
    /\ Len(vecReq.records) = 2
    /\ ~InvalidRecord(vecReq.records[1])
    /\ InvalidRecord(vecReq.records[2])
    /\ vecResp.result = "error"
    /\ Len(vecCalls) = 1
    /\ vecCalls[1].op = "embed"
    /\ vecIndex[<<vecReq.namespace, vecReq.records[1]._id>>] = {}

MatchesOfTenant(namespace) ==
    \A i \in 1..Len(vecResp.matches) : MatchUserId(vecResp.matches[i]) = namespace

DegradedEmbed(call) ==
    call.op = "embed" /\ call.text # "" /\ (~call.hasKey \/ call.outcome = "fail")

\* C6: every embedding of a non-empty text made without a provider credential,
\* or whose provider call failed, returned a vector of exactly 3072 components:
\* it was not empty and nothing was raised.
C6_EmbeddingFallbackHasFixedLength ==
    \A i \in 1..Len(vecCalls) :
        DegradedEmbed(vecCalls[i])
        => /\ vecCalls[i].raised = ""
           /\ vecCalls[i].dim = EmbeddingDim
           /\ vecCalls[i].dim # 0

\* One request embedded with the credential set and the provider call failing.
C6_Witness ==
    \E i \in 1..Len(vecCalls) :
        /\ DegradedEmbed(vecCalls[i])
        /\ vecCalls[i].hasKey
        /\ vecCalls[i].outcome = "fail"
        /\ vecCalls[i].placeholder


(***************************************************************************)
(* Claims about concurrent batch saves (checked under SpecWorkers)         *)
(***************************************************************************)
BothDone == \A w \in Workers : workers[w].pc = "done"

\* The positions of the puts for a key in the log.
PutsAt(k) == {n \in 1..Len(putLog) : <<putLog[n].pid, putLog[n].bid>> = k}

LastPutAt(k) == putLog[CHOOSE n \in PutsAt(k) : \A m \in PutsAt(k) : m <= n]

BatchItems(st) ==
    {TextBlockItem(st.pid, st.blocks[n].id, st.blocks[n].content,
                   OrderOf(st.blocks[n], n)) : n \in 1..Len(st.blocks)}

ScanFailed == \E n \in 1..Len(prCalls) : prCalls[n].op = "scan" /\ ~prCalls[n].ok

\* C12: get_user_projects(userId) returns exactly the stored projects whose
\* userId is the argument, whether the userId-index query works or fails (the
\* table answering its reads with what it stores), and raises only when the
\* scan it falls back to fails.
C12_UserProjectsWithFallback ==
    prReq.op = "get_user_projects"
    => IF ScanFailed
       THEN prResp.raised # ""
       ELSE /\ prResp.raised = ""
            /\ prResp.items = ItemsOfUser(projects, prReq.userId)

\* The index query failed and the call returned the user's projects from the scan.
C12_Witness ==
    /\ prReq.op = "get_user_projects"
    /\ prCalls[1].op = "query_index"
    /\ ~prCalls[1].ok
    /\ prResp.raised = ""
    /\ prResp.items # {}
    /\ \E p \in Projects : \E x \in projects[p] : x.userId # prReq.userId

\* C16: POST /projects/create calls the assistant provider before any put; when
\* provisioning fails the answer is 500 and nothing is put; and a record it
\* writes carries the id the provider returned in this request.
C16_AssistantBeforeProjectRecord ==
    [][(prReq = NoReq /\ prReq'.op = "POST /projects/create")
       => /\ prCalls'[1].op = "create_assistant"
          /\ ~prCalls'[1].ok
                => /\ prResp'.code = 500
                   /\ Len(prCalls') = 1
                   /\ projects' = projects
          /\ \A n \in 1..Len(prCalls') :
                 prCalls'[n].op = "put"
                 => /\ n > 1
                    /\ prCalls'[1].ok
                    /\ prCalls'[n].item.assistantId = prCalls'[1].id
          /\ projects' # projects
                => /\ prCalls'[1].ok
                   /\ \A x \in projects'[prReq'.canvas.id] :
                          x.assistantId = prCalls'[1].id
                   /\ \A p \in Projects \ {prReq'.canvas.id} :
                          projects'[p] = projects[p]]_vars

\* Provisioning failed for a create request, it was answered 500 and its
\* project id holds no record, while an earlier create has left a record with
\* its assistant id.
C16_Witness ==
    /\ prReq.op = "POST /projects/create"
    /\ ~prCalls[1].ok
    /\ prResp.code = 500
    /\ projects[prReq.canvas.id] = {}
    /\ \E p \in Projects : \E x \in projects[p] :
           "assistantId" \in DOMAIN x /\ x.assistantId \in AssistantIds

UpdateFields == {"userId", "projectId", "title", "lastModified", "blocks"}

\* C20: after POST /projects/update has succeeded, the record stored under the
\* projectId is the item built from the request, with the attributes userId,
\* projectId, title, lastModified and blocks and no other.
C20_UpdateIsFullOverwrite ==
    (prReq.op = "POST /projects/update" /\ prResp.code = 200)
    => /\ projects[prReq.canvas.id] = {UpdateItem(prReq.userId, prReq.canvas)}
       /\ \A x \in projects[prReq.canvas.id] : DOMAIN x = UpdateFields

\* An update has succeeded over a record written by create, which had assistantId,
\* dateCreated, editedAt and metadata.
C20_Witness ==
    /\ prReq.op = "POST /projects/update"
    /\ prResp.code = 200
    /\ \E x \in prCalls[1].old :
           {"assistantId", "dateCreated", "editedAt", "metadata"} \subseteq DOMAIN x
    /\ \A x \in projects[prReq.canvas.id] : "assistantId" \notin DOMAIN x


(***************************************************************************)
(* Claims about GET /text-blocks (checked under SpecRead)                  *)
(***************************************************************************)
GotBlocks == tbReq.op = "get_blocks" /\ tbResp.code = 200

\* The response lists every stored block of the project once, and nothing else.
AllAndOnlyStored ==
    /\ \A x \in textBlocks :
           x.projectId = tbReq.pid
           => \E n \in 1..Len(tbResp.blocks) : tbResp.blocks[n] = TransformedBlock(x)
    /\ \A n \in 1..Len(tbResp.blocks) :
           \E x \in textBlocks :
               x.projectId = tbReq.pid /\ tbResp.blocks[n] = TransformedBlock(x)
    /\ \A m \in 1..Len(tbResp.blocks) : \A n \in 1..Len(tbResp.blocks) :
           m # n => tbResp.blocks[m].id # tbResp.blocks[n].id

\* The place of a block id of the requested project in the order of insertion.
InsertedPos(bid) == CHOOSE n \in 1..Len(inserted) : inserted[n] = <<tbReq.pid, bid>>

SortKeyPos(bid) == CHOOSE n \in 1..Len(BlockIdOrder) : BlockIdOrder[n] = bid

\* C13, as the specification states it: the response holds all and only the
\* project's blocks, ascending by order, and blocks of equal order appear in
\* the order in which they were inserted.
C13_AscendingThenInsertionOrder ==
    GotBlocks
    => /\ AllAndOnlyStored
       /\ IsAscending(tbResp.blocks)
       /\ \A m \in 1..Len(tbResp.blocks) : \A n \in 1..Len(tbResp.blocks) :
              (m < n /\ tbResp.blocks[m].order = tbResp.blocks[n].order)
              => InsertedPos(tbResp.blocks[m].id) < InsertedPos(tbResp.blocks[n].id)

\* C13, amended: the response holds all and only the project's blocks, ascending
\* by order, and blocks of equal order appear in ascending order of their block
\* id, the sort key of the table.
C13_AscendingThenBlockId ==
    GotBlocks
    => /\ AllAndOnlyStored
       /\ IsAscending(tbResp.blocks)
       /\ \A m \in 1..Len(tbResp.blocks) : \A n \in 1..Len(tbResp.blocks) :
              (m < n /\ tbResp.blocks[m].order = tbResp.blocks[n].order)
              => SortKeyPos(tbResp.blocks[m].id) < SortKeyPos(tbResp.blocks[n].id)

\* Two blocks of equal order were inserted b2 first, and were returned b1 first,
\* with another project holding blocks too.
C13_Witness ==
    /\ GotBlocks
    /\ Len(tbResp.blocks) = 2
    /\ tbResp.blocks[1].order = tbResp.blocks[2].order
    /\ tbResp.blocks[1].id = "b1"
    /\ InsertedPos("b2") < InsertedPos("b1")
    /\ \E x \in textBlocks : x.projectId # tbReq.pid


(***************************************************************************)
(* Claims about the credential endpoints (checked under SpecAuth)          *)
(***************************************************************************)
StoredProvider(u) == IF "provider" \in DOMAIN u THEN u.provider ELSE PyNone

\* C14: POST /auth/register for an email that has a stored user, and POST
\* /auth/create-user for an email stored under another provider, are answered
\* with status 400 and leave the stored user as it was (the lookup of the
\* stored user having been answered).
C14_DuplicateIs400 ==
    [][(/\ authReq = NoReq
        /\ authReq'.op \in {"POST /auth/register", "POST /auth/create-user"}
        /\ users[authReq'.email] # {}
        /\ authCalls'[1].ok
        /\ \/ authReq'.op = "POST /auth/register"
           \/ \E u \in users[authReq'.email] : StoredProvider(u) # authReq'.provider)
       => /\ authResp'.code = 400
          /\ users' = users]_vars

Verifies(email, password) ==
    \E u \in users[email] :
        "hashed_password" \in DOMAIN u /\ VerifyPassword(password, u.hashed_password)

\* C15: POST /auth/login is answered 200 or 401; 401 whenever no user is stored
\* for the email or the password does not verify against the stored hash, and
\* the success envelope only when the password verifies against it.
C15_Login401UnlessVerified ==
    authReq.op = "POST /auth/login"
    => /\ authResp.code \in {200, 401}
       /\ authResp.code = 200 => (authResp.status = "success"
                                    /\ Verifies(authReq.email, authReq.password))
       /\ ~Verifies(authReq.email, authReq.password) => authResp.code = 401

\* A login with a wrong password for a registered email has been answered 401.
C15_Witness ==
    /\ authReq.op = "POST /auth/login"
    /\ \E u \in users[authReq.email] : "hashed_password" \in DOMAIN u
    /\ ~Verifies(authReq.email, authReq.password)
    /\ authCalls[1].ok
    /\ authResp.code = 401

\* C19: when the get_item call made by get_user_by_email or get_user_demo_flag
\* fails, the caller gets an error, not a normal return value.
C19_StoreFailureReachesCaller ==
    (/\ authReq.op \in {"get_user_by_email", "get_user_demo_flag"}
     /\ \E n \in 1..Len(authCalls) : ~authCalls[n].ok)
    => authResp.raised # ""


(***************************************************************************)
(* Claims about error responses                                            *)
(***************************************************************************)
\* C17 (checked under SpecBlocks): a failing request is answered with the body
\* {"status": "error", "message": ...} and a status of its error category.
C17_UniformErrorEnvelope ==
    (tbReq # NoReq /\ tbResp.code # 200)
    => /\ DOMAIN ResponseBody(tbResp) = {"status", "message"}
       /\ ResponseBody(tbResp).status = "error"
       /\ tbResp.code \in {400, 401, 404, 422, 500}

\* C18 (checked under SpecProjects): no error response carries a stack trace
\* in its body.
C18_NoStackTraceInBody ==
    (prReq # NoReq /\ prResp.status = "error") => ~prResp.trace

(***************************************************************************)
(* Claims about the routes of main.py (checked under SpecMain)             *)
(***************************************************************************)
\* C21: GET / is always answered with status 200 and the body
\* {"message": "Welcome to the Notebook Buddy API"}, whatever is stored.
C21_RootWelcomeBody ==
    mainReq.op = "GET /"
    => /\ mainResp.code = 200
       /\ mainResp.body = [message |-> "Welcome to the Notebook Buddy API"]

\* C22: GET /test is always answered with status 200 and a body whose status is
\* "success", whose message is "Test endpoint is working correctly" and whose
\* data object has a timestamp field.
C22_TestEndpointBody ==
    mainReq.op = "GET /test"
    => /\ mainResp.code = 200
       /\ mainResp.body.status = "success"
       /\ mainResp.body.message = "Test endpoint is working correctly"
       /\ "data" \in DOMAIN mainResp.body
       /\ "timestamp" \in DOMAIN mainResp.body.data

(***************************************************************************)
(* Claims about the response of a batch save (checked under SpecBlocks)    *)
(***************************************************************************)
\* Whether a text has x among its pieces.
Names(text, x) == \E i \in 1..Len(text) : text[i] = x

\* C23: when the put of one block of a batch fails, the error the client gets
\* names the project id and the id of the block whose put failed.
C23_SaveErrorNamesProjectAndBlock ==
    (tbReq.op = "put_blocks" /\ tbResp.code = 500)
    => /\ Names(ResponseBody(tbResp).detail, tbReq.pid)
       /\ Names(ResponseBody(tbResp).detail, tbCalls[Len(tbCalls)].bid)

\* The ways to lay 1..n out in a row.
Permutations1(n) == {f \in [1..n -> 1..n] : \A i, j \in 1..n : f[i] = f[j] => i = j}

\* C24: the response of a successful batch save has exactly one entry per
\* submitted block (also when a block id is submitted twice), ascending by
\* order, and entries of equal order stand in the sequence of their submission.
C24_StableSortOneEntryPerBlock ==
    (tbReq.op = "put_blocks" /\ tbResp.code = 200)
    => /\ Len(tbResp.blocks) = Len(tbReq.blocks)
       /\ \E f \in Permutations1(Len(tbReq.blocks)) :
             /\ \A i \in 1..Len(tbResp.blocks) :
                   tbResp.blocks[i] = SavedBlock(tbReq.blocks[f[i]].id,
                                                 tbReq.blocks[f[i]].content,
                                                 tbReq.blocks[f[i]].order)
             /\ \A i, j \in 1..Len(tbResp.blocks) :
                   i < j => \/ tbResp.blocks[i].order < tbResp.blocks[j].order
                            \/ /\ tbResp.blocks[i].order = tbResp.blocks[j].order
                               /\ f[i] < f[j]

\* A batch that submits one block id twice, with one order and two contents,
\* was answered 200.
C24_Witness ==
    /\ tbReq.op = "put_blocks"
    /\ tbResp.code = 200
    /\ Len(tbReq.blocks) = 2
    /\ tbReq.blocks[1].id = tbReq.blocks[2].id
    /\ tbReq.blocks[1].order = tbReq.blocks[2].order
    /\ tbReq.blocks[1].content # tbReq.blocks[2].content

(***************************************************************************)
(* Claims about the order of the outbound calls (checked under SpecVec)    *)
(***************************************************************************)
\* C25: a successful upsert_records of N records calls the embedding client once
\* per record, in record order, and only then makes exactly one upsert call to
\* the index, which carries all N entries in the requested namespace; in no
\* request is an upsert call made before the last record is validated and
\* embedded.
C25_EmbedAllThenOneUpsert ==
    vecReq.op = "POST records"
    => LET N == Len(vecReq.records)
       IN  /\ \A i \in 1..Len(vecCalls) :
                 vecCalls[i].op = "upsert"
                 => /\ i = N + 1
                    /\ \A j \in 1..N : ~InvalidRecord(vecReq.records[j])
           /\ vecResp.code = 200
              => /\ Len(vecCalls) = N + 1
                 /\ \A i \in 1..N : /\ vecCalls[i].op = "embed"
                                    /\ vecCalls[i].text = vecReq.records[i].content
                 /\ vecCalls[N + 1].op = "upsert"
                 /\ vecCalls[N + 1].ok
                 /\ vecCalls[N + 1].namespace = vecReq.namespace
                 /\ vecCalls[N + 1].n = N
                 /\ \A i \in 1..N :
                       vecIndex[<<vecReq.namespace, vecReq.records[i]._id>>] # {}

\* An upsert of two records went through.
C25_Witness ==
    /\ vecReq.op = "POST records"
    /\ vecResp.code = 200
    /\ Len(vecReq.records) = 2
    /\ vecReq.records[1]._id # vecReq.records[2]._id

(***************************************************************************)
(* Claims about the notecrafts search (checked under SpecNotecrafts)       *)
(***************************************************************************)
\* C26: POST /notecrafts/search-texts returns only matches whose metadata userId
\* is the X-User-ID of the request, whatever namespace and filter the body
\* carries, also for a request without that header.
C26_SearchTextsReturnsOnlyCaller ==
    (vecReq.op = "POST search-texts" /\ vecResp.code = 200)
    => \A i \in 1..Len(vecResp.matches) :
           MatchUserId(vecResp.matches[i]) = vecReq.user_id

(***************************************************************************)
(* Claims about the DynamoDB connection (checked under SpecManagers)       *)
(***************************************************************************)
\* The DynamoDB resources the DynamoDBManager classes have created.
ManagerResources == initCalls["aws_config"] + initCalls["dynamodb_service"]

\* The handles get_table has returned for a table name.
HandlesOf(name) == UNION {handed[<<cls, name>>] : cls \in ManagerClasses}

C28_RegisterNeverReplaces ==
    [][\A e \in Emails : users[e] # {} => users'[e] = users[e]]_vars

(***************************************************************************)
(* Claims about project ownership (checked under SpecProjects)             *)
(***************************************************************************)
\* C29: once a project record is stored with a userId, no POST /projects/create
\* or POST /projects/update request, whatever userId it carries, changes the
\* userId stored for that projectId: a record is only ever overwritten on
\* behalf of the user it belongs to.
C29_ProjectKeepsItsOwner ==
    [][\A p \in Projects : \A old \in projects[p] :
           /\ projects'[p] # {}
           /\ \A new \in projects'[p] : new.userId = old.userId]_vars

(***************************************************************************)
(* Claims about uploaded files (checked under SpecUpload)                  *)
(***************************************************************************)
\* C30: every POST /upload writes to a path no other upload uses, also for two
\* uploads of one filename that overlap or fall into one second; so the file of
\* an upload answered 200 stays at its path with that upload's chunks, neither
\* emptied nor removed nor written by another upload.
C30_UploadPathsAreDistinct ==
    /\ \A a \in opened : \A b \in opened : a.path = b.path => a.id = b.id
    /\ \A c \in completed :
          /\ InoAt(fs, c.path) = c.id
          /\ \A f \in fs[c.path] : f.data = [i \in 1..NumChunks |-> c.id]
====
